---- MODULE Spec2Model ----
(***************************************************************************)
(* Model of the OpenAI Deep Research MCP server:                           *)
(*   - ResearchRequestValidator   (src/src/modules/validation.ts)          *)
(*   - ResearchRateLimiter        (src/src/modules/validation.ts)          *)
(*   - OpenAIDeepResearchClient   (src/src/modules/openai-client.ts)       *)
(*   - OpenAIDeepResearchMCPServer.handleDeepResearchRequest               *)
(*                                (src/src/modules/mcp-server.ts)          *)
(*                                                                         *)
(* Strings that the code inspects character by character (the research    *)
(* query) are sequences of one-character strings.  Messages that the code  *)
(* only concatenates are sequences of text fragments.  Times are counted   *)
(* in minutes (one unit = 60000 ms of Date.now()); money in cents.         *)
(***************************************************************************)
EXTENDS Integers, Sequences, FiniteSets, TLC

VARIABLES
    pc,             \* position of the handler in handleDeepResearchRequest
    request,        \* the request value the tool callback was invoked with
    requestId,      \* requestId generated for the invocation
    validation,     \* validationResult of step 1
    sanitizedQuery, \* sanitizedQuery of step 2
    apiCalls,       \* inputs of the openai.responses.create calls issued
    researchCalls,  \* number of performDeepResearch invocations
    limiterCalls,   \* number of rate limiter invocations by the handler
    serviceOutcome, \* what the external service did for the call
    envelope,       \* the MCPToolResponse returned to the caller
    trace,          \* phases the invocation has passed through
    config,         \* RateLimitConfig of the limiter
    now,            \* Date.now()
    clientUsage,    \* ResearchRateLimiter.clientUsage
    lastCheck,      \* result of the checkRateLimit call that just returned
    recorded,       \* per client: hour bucket and number of recordRequest calls in it
    nRecords,       \* number of recordRequest calls so far
    nTicks,         \* number of clock advances so far
    fault,          \* the part of the limiter's surroundings that has failed
    callOutcome,    \* how the last limiter call under a fault came back
    inflight,       \* per concurrent request: its stage and what its check returned
    subject,        \* the value given to sanitizeQuery and validateClientId
    passes,         \* results of the successive sanitizeQuery applications
    idResult        \* result of validateClientId

vars == <<pc, request, requestId, validation, sanitizedQuery, apiCalls,
          researchCalls, limiterCalls, serviceOutcome, envelope, trace,
          config, now, clientUsage, lastCheck, recorded, nRecords, nTicks,
          fault, callOutcome, inflight, subject, passes, idResult>>

handlerVars == <<pc, request, requestId, validation, sanitizedQuery, apiCalls,
                 researchCalls, limiterCalls, serviceOutcome, envelope, trace>>

limiterVars == <<config, now, clientUsage, lastCheck, recorded, nRecords, nTicks>>

\* state of the experiments on single operations
auxVars == <<fault, callOutcome, inflight, subject, passes, idResult>>

(***************************************************************************)
(* Characters and strings                                                  *)
(***************************************************************************)
Whitespace == {" ", "\t", "\n"}

LowerLetters == {"a","b","c","d","e","f","g","h","i","j","k","l","m",
                 "n","o","p","q","r","s","t","u","v","w","x","y","z"}

UpperLetters == {"A","B","C","D","E","F","G","H","I","J","K","L","M",
                 "N","O","P","Q","R","S","T","U","V","W","X","Y","Z"}

Digits == {"0","1","2","3","4","5","6","7","8","9"}

\* \w of the regular expressions
WordChars == LowerLetters \cup UpperLetters \cup Digits \cup {"_"}

\* the characters validateContentSafety does not count as special
SafeChars == LowerLetters \cup UpperLetters \cup Digits \cup Whitespace
             \cup {".", ",", "!", "?", ";", ":", "(", ")", "-", "'", "\""}

LowerOf == [c \in UpperLetters |->
    CASE c = "A" -> "a" [] c = "B" -> "b" [] c = "C" -> "c" [] c = "D" -> "d"
      [] c = "E" -> "e" [] c = "F" -> "f" [] c = "G" -> "g" [] c = "H" -> "h"
      [] c = "I" -> "i" [] c = "J" -> "j" [] c = "K" -> "k" [] c = "L" -> "l"
      [] c = "M" -> "m" [] c = "N" -> "n" [] c = "O" -> "o" [] c = "P" -> "p"
      [] c = "Q" -> "q" [] c = "R" -> "r" [] c = "S" -> "s" [] c = "T" -> "t"
      [] c = "U" -> "u" [] c = "V" -> "v" [] c = "W" -> "w" [] c = "X" -> "x"
      [] c = "Y" -> "y" [] c = "Z" -> "z"]

Lower(c) == IF c \in UpperLetters THEN LowerOf[c] ELSE c

ToLowerCase(s) == [i \in 1..Len(s) |-> Lower(s[i])]

\* s contains pat at position i
MatchAt(s, pat, i) ==
    /\ i >= 1
    /\ i + Len(pat) - 1 <= Len(s)
    /\ \A k \in 1..Len(pat) : s[i + k - 1] = pat[k]

Includes(s, pat) == \E i \in 1..Len(s) : MatchAt(s, pat, i)

\* the elements of s at the positions that satisfy Keep, in order
KeepPositions(s, Keep(_)) ==
    LET marked == [p \in 1..Len(s) |-> <<s[p], Keep(p)>>]
        kept == SelectSeq(marked, LAMBDA m : m[2])
    IN [k \in 1..Len(kept) |-> kept[k][1]]

\* String.prototype.trim
TrimStart(s) ==
    IF \A i \in 1..Len(s) : s[i] \in Whitespace THEN <<>>
    ELSE LET first == CHOOSE i \in 1..Len(s) :
                          s[i] \notin Whitespace /\ \A j \in 1..(i - 1) : s[j] \in Whitespace
         IN SubSeq(s, first, Len(s))

TrimEnd(s) ==
    IF \A i \in 1..Len(s) : s[i] \in Whitespace THEN <<>>
    ELSE LET last == CHOOSE i \in 1..Len(s) :
                         s[i] \notin Whitespace /\ \A j \in (i + 1)..Len(s) : s[j] \in Whitespace
         IN SubSeq(s, 1, last)

Trim(s) == TrimEnd(TrimStart(s))

(***************************************************************************)
(* JavaScript values of the request fields                                 *)
(***************************************************************************)
\* a JavaScript value in the research_query position
StringValue(s) == [kind |-> "string", chars |-> s]
UndefinedValue == [kind |-> "undefined", chars |-> <<>>]
NullValue      == [kind |-> "null", chars |-> <<>>]
NumberValue    == [kind |-> "number", chars |-> <<>>]

\* an optional field: <<>> when the key is absent, <<v>> when it holds v
Absent == <<>>
Given(v) == <<v>>

\* a string written as the sequence of its characters
LongQueryLength == 2001
Chars_hello      == <<"h","e","l","l","o">>
Chars_solar      == <<"s","o","l","a","r"," ","c","e","l","l","s">>
Chars_padded     == <<" "," ","s","o","l","a","r"," "," "," ","c","e","l","l","s"," ">>
Chars_tabbed     == <<"s","o","l","a","r","\t","c","e","l","l","s"," ","n","o","w">>
Chars_tagged     == <<"<","b",">","s","o","l","a","r"," ","c","e","l","l","s">>
Chars_script     == <<"j","a","v","a","s","c","r","i","p","t",":","a","l","e","r","t">>
Chars_blank      == <<" "," "," "," "," "," "," "," "," "," "," "," ">>
Chars_special    == <<"s","o","l","a","r"," ","c","e","l","l","s"," ","#","#","#","#">>
Chars_repeated   == <<"a","b","c","a","b","c","a","b","c","a","b","c">>
Chars_long       == [i \in 1..LongQueryLength |-> "a"]
Chars_scriptTag  == <<"<","s","c","r","i","p","t",">","a","l","e","r","t","(","1",")","<","/","s","c","r","i","p","t",">">>
Chars_eval       == <<"p","l","e","a","s","e"," ","e","v","a","l","(","t","h","i","s",")">>
Chars_handler    == <<"s","e","t"," ","o","n","c","l","i","c","k"," ","="," ","n","o","w">>
Chars_dataUrl    == <<"o","p","e","n"," ","d","a","t","a",":","t","e","x","t","/","h","t","m","l"," ","n","o","w">>
Chars_function   == <<"a"," ","f","u","n","c","t","i","o","n"," ","(","x",")"," ","h","e","r","e">>
Chars_complex    == <<"s","t","u","d","y"," ","r","e","v","i","e","w"," ","r","e","s","e","a","r","c","h"," ","a","n","a","l","y","s","i","s"," ","a","n","d"," ","o","r"," ","v","e","r","s","u","s"," ","?","?","?","?">>
\* a query whose words are set apart by runs of spaces
Chars_spaced     == <<"A","I"," "," "," ","v","s"," "," "," ","M","L">>
\* a query longer than the limit whose character at the limit is a space
Chars_longSpaced == [i \in 1..LongQueryLength |-> IF i = 2000 THEN " " ELSE "a"]

(***************************************************************************)
(* ResearchRequestValidator                                                *)
(***************************************************************************)
MinQueryLength == 10
MaxQueryLength == 2000
MinMaxTokens == 500
MaxMaxTokens == 8000
\* temperatures are counted in hundredths: 1.0 is 100
MaxTemperature == 100
HighAccuracyMinTokens == 2000
HighAccuracyMaxTemperature == 50

ValidationIssue(f, c, m) == [field |-> f, code |-> c, message |-> m]

\* ResearchQuerySchema without the max(2000) check
ResearchQuerySchema_NoUpperBound(v) ==
    IF v.kind # "string"
    THEN <<ValidationIssue("research_query", "invalid_type", "Required")>>
    ELSE (IF Len(v.chars) < MinQueryLength
          THEN <<ValidationIssue("research_query", "too_small",
                    "Research query must be at least 10 characters")>>
          ELSE <<>>)
      \o (IF \E i \in 1..Len(v.chars) : v.chars[i] \in {"<", ">"}
          THEN <<ValidationIssue("research_query", "invalid_string",
                    "Research query cannot contain HTML/XML tags")>>
          ELSE <<>>)
      \o (IF Len(Trim(v.chars)) < MinQueryLength
          THEN <<ValidationIssue("research_query", "custom",
                    "Research query must contain meaningful content")>>
          ELSE <<>>)

\* ResearchQuerySchema: min, max, regex, then the refinement on the trimmed
\* length; a value that is not a string aborts with invalid_type
ResearchQuerySchema(v) ==
    IF v.kind # "string"
    THEN <<ValidationIssue("research_query", "invalid_type", "Required")>>
    ELSE (IF Len(v.chars) < MinQueryLength
          THEN <<ValidationIssue("research_query", "too_small",
                    "Research query must be at least 10 characters")>>
          ELSE <<>>)
      \o (IF Len(v.chars) > MaxQueryLength
          THEN <<ValidationIssue("research_query", "too_big",
                    "Research query must not exceed 2000 characters")>>
          ELSE <<>>)
      \o (IF \E i \in 1..Len(v.chars) : v.chars[i] \in {"<", ">"}
          THEN <<ValidationIssue("research_query", "invalid_string",
                    "Research query cannot contain HTML/XML tags")>>
          ELSE <<>>)
      \o (IF Len(Trim(v.chars)) < MinQueryLength
          THEN <<ValidationIssue("research_query", "custom",
                    "Research query must contain meaningful content")>>
          ELSE <<>>)

AccuracyLevelSchema(a) ==
    IF a \in {"high", "medium"} THEN <<>>
    ELSE <<ValidationIssue("accuracy_level",
              IF a = "undefined" THEN "invalid_type" ELSE "invalid_enum_value",
              "Accuracy level must be either 'high' or 'medium'")>>

ResponseFormatSchema(f) ==
    IF f \in {"undefined", "comprehensive", "summary", "bullet_points"} THEN <<>>
    ELSE <<ValidationIssue("response_format", "invalid_enum_value",
              "Response format must be 'comprehensive', 'summary', or 'bullet_points'")>>

MaxTokensSchema(t) ==
    IF t = Absent THEN <<>>
    ELSE (IF t[1] < MinMaxTokens
          THEN <<ValidationIssue("max_tokens", "too_small", "Max tokens must be at least 500")>>
          ELSE <<>>)
      \o (IF t[1] > MaxMaxTokens
          THEN <<ValidationIssue("max_tokens", "too_big", "Max tokens cannot exceed 8000")>>
          ELSE <<>>)

TemperatureSchema(t) ==
    IF t = Absent THEN <<>>
    ELSE (IF t[1] < 0
          THEN <<ValidationIssue("temperature", "too_small", "Temperature must be at least 0")>>
          ELSE <<>>)
      \o (IF t[1] > MaxTemperature
          THEN <<ValidationIssue("temperature", "too_big", "Temperature cannot exceed 1")>>
          ELSE <<>>)

\* the issues DoDeepResearchSchema.parse raises, in the order of the shape's keys
DoDeepResearchSchema(data) ==
    IF ~data.isObject
    THEN <<ValidationIssue("", "invalid_type", "Required")>>
    ELSE ResearchQuerySchema(data.research_query)
      \o AccuracyLevelSchema(data.accuracy_level)
      \o MaxTokensSchema(data.max_tokens)
      \o TemperatureSchema(data.temperature)
      \o ResponseFormatSchema(data.response_format)

\* the parsed object: the defaults of include_sources and response_format applied
ParsedData(data) ==
    [data EXCEPT !.include_sources = IF @ = Absent THEN Given(TRUE) ELSE @,
                 !.response_format = IF @ = "undefined" THEN "comprehensive" ELSE @]

\* the business rules applied whatever the accuracy level is
validateBusinessRules_AnyAccuracy(req) ==
    (IF req.max_tokens # Absent
        /\ req.max_tokens[1] # 0 /\ req.max_tokens[1] < HighAccuracyMinTokens
     THEN <<ValidationIssue("max_tokens", "business_rule",
               "High accuracy research typically requires at least 2000 tokens for quality results")>>
     ELSE <<>>)
 \o (IF req.temperature # Absent
        /\ req.temperature[1] > HighAccuracyMaxTemperature
     THEN <<ValidationIssue("temperature", "business_rule",
               "High accuracy research works best with lower temperature")>>
     ELSE <<>>)

\* the errors validateBusinessRules collects
validateBusinessRules(req) ==
    (IF req.accuracy_level = "high" /\ req.max_tokens # Absent
        /\ req.max_tokens[1] # 0 /\ req.max_tokens[1] < HighAccuracyMinTokens
     THEN <<ValidationIssue("max_tokens", "business_rule",
               "High accuracy research typically requires at least 2000 tokens for quality results")>>
     ELSE <<>>)
 \o (IF req.temperature # Absent /\ req.accuracy_level = "high"
        /\ req.temperature[1] > HighAccuracyMaxTemperature
     THEN <<ValidationIssue("temperature", "business_rule",
               "High accuracy research works best with lower temperature")>>
     ELSE <<>>)

\* /function\s*\(/i at position i
MatchFunctionLiteral(s, i) ==
    /\ MatchAt(s, <<"f","u","n","c","t","i","o","n">>, i)
    /\ \E j \in (i + 8)..Len(s) :
         /\ s[j] = "("
         /\ \A k \in (i + 8)..(j - 1) : s[k] \in Whitespace

\* /on\w+\s*=/i at position i
MatchEventHandler(s, i) ==
    /\ MatchAt(s, <<"o","n">>, i)
    /\ \E j \in (i + 2)..Len(s) : \E e \in (j + 1)..Len(s) :
         /\ \A k \in (i + 2)..j : s[k] \in WordChars
         /\ \A k \in (j + 1)..(e - 1) : s[k] \in Whitespace
         /\ s[e] = "="

\* one of the dangerousPatterns matches
MatchesDangerousPattern(query) ==
    LET s == ToLowerCase(query) IN
    \/ Includes(s, <<"j","a","v","a","s","c","r","i","p","t",":">>)
    \/ Includes(s, <<"<","s","c","r","i","p","t">>)
    \/ Includes(s, <<"e","v","a","l","(">>)
    \/ \E i \in 1..Len(s) : MatchFunctionLiteral(s, i)
    \/ \E i \in 1..Len(s) : MatchEventHandler(s, i)
    \/ Includes(s, <<"d","a","t","a",":","t","e","x","t","/","h","t","m","l">>)

SpecialCharCount(query) == Cardinality({i \in 1..Len(query) : query[i] \notin SafeChars})

\* /(.{3,})\1{3,}/ : a unit of at least 3 characters, none a line terminator,
\* followed by at least 3 more copies of itself
MinRepeatUnit == 3
RepeatCopies == 4
HasRepeatedPattern(query) ==
    \E i \in 1..Len(query) : \E n \in MinRepeatUnit..(Len(query) \div RepeatCopies) :
        /\ i + RepeatCopies * n - 1 <= Len(query)
        /\ \A k \in 0..(n - 1) : query[i + k] # "\n"
        /\ \A k \in n..(RepeatCopies * n - 1) : query[i + k] = query[i + (k % n)]

validateContentSafety(query) ==
    (IF MatchesDangerousPattern(query)
     THEN <<ValidationIssue("research_query", "security",
               "Research query contains potentially unsafe content")>>
     ELSE <<>>)
 \o (IF 5 * SpecialCharCount(query) > Len(query)
     THEN <<ValidationIssue("research_query", "format",
               "Research query contains too many special characters")>>
     ELSE <<>>)
 \o (IF HasRepeatedPattern(query)
     THEN <<ValidationIssue("research_query", "spam",
               "Research query contains excessive repetition")>>
     ELSE <<>>)

ValidResult(d) == [isValid |-> TRUE, hasData |-> TRUE, data |-> d, errors |-> <<>>]
InvalidResult(d, errs) == [isValid |-> FALSE, hasData |-> FALSE, data |-> d, errors |-> errs]

\* validateResearchRequest with the content-safety check before the business rules
validateResearchRequest_SafetyFirst(data) ==
    LET schemaIssues == DoDeepResearchSchema(data) IN
    IF schemaIssues # <<>> THEN InvalidResult(data, schemaIssues)
    ELSE LET validatedData == ParsedData(data)
             safetyIssues == validateContentSafety(validatedData.research_query.chars) IN
         IF safetyIssues # <<>> THEN InvalidResult(data, safetyIssues)
         ELSE LET businessIssues == validateBusinessRules(validatedData) IN
              IF businessIssues # <<>> THEN InvalidResult(data, businessIssues)
              ELSE ValidResult(validatedData)

\* validateResearchRequest: schema, then business rules, then content safety
validateResearchRequest(data) ==
    LET schemaIssues == DoDeepResearchSchema(data) IN
    IF schemaIssues # <<>> THEN InvalidResult(data, schemaIssues)
    ELSE LET validatedData == ParsedData(data)
             businessIssues == validateBusinessRules(validatedData) IN
         IF businessIssues # <<>> THEN InvalidResult(data, businessIssues)
         ELSE LET safetyIssues == validateContentSafety(validatedData.research_query.chars) IN
              IF safetyIssues # <<>> THEN InvalidResult(data, safetyIssues)
              ELSE ValidResult(validatedData)

\* replace(/<[^>]*>/g, ''): a '<' is removed together with everything up to
\* the first '>' after it; a '<' with no later '>' stays.  Position p lies in a
\* removed tag exactly when some '<' at or before p is followed by no '>'
\* before p and by a '>' at or after p.
InsideTag(s, p) ==
    \E i \in 1..p :
        /\ s[i] = "<"
        /\ \A k \in (i + 1)..(p - 1) : s[k] # ">"
        /\ \E j \in p..Len(s) : j > i /\ s[j] = ">"

\* replace(/<[^>]*>/, '') without the g flag: the first tag alone is removed
RemoveTags_FirstOnly(s) ==
    LET opens == {i \in 1..Len(s) : s[i] = "<" /\ \E j \in (i + 1)..Len(s) : s[j] = ">"}
    IN IF opens = {} THEN s
       ELSE LET i == CHOOSE x \in opens : \A y \in opens : x <= y
                j == CHOOSE x \in (i + 1)..Len(s) :
                         s[x] = ">" /\ \A y \in (i + 1)..(x - 1) : s[y] # ">"
            IN KeepPositions(s, LAMBDA p : p < i \/ p > j)

RemoveTags(s) == KeepPositions(s, LAMBDA p : ~InsideTag(s, p))

\* replace(/pat/gi, '') for a pattern no two occurrences of which overlap:
\* every occurrence is removed, in one pass
RemoveAllIgnoreCase(s, pat) ==
    LET low == ToLowerCase(s) IN
    KeepPositions(s, LAMBDA p :
        ~\E i \in (p - Len(pat) + 1)..p : MatchAt(low, pat, i))

\* replace(/\s+/g, ' '): the first character of a whitespace run becomes a
\* space, the rest of the run goes
CollapseWhitespace(s) ==
    LET spaced == [p \in 1..Len(s) |-> IF s[p] \in Whitespace THEN " " ELSE s[p]]
    IN KeepPositions(spaced, LAMBDA p :
           s[p] \notin Whitespace \/ p = 1 \/ s[p - 1] \notin Whitespace)

sanitizeQuery(query) ==
    LET stripped == Trim(RemoveAllIgnoreCase(
                        RemoveAllIgnoreCase(RemoveTags(query),
                            <<"j","a","v","a","s","c","r","i","p","t",":">>),
                        <<"d","a","t","a",":","t","e","x","t","/","h","t","m","l">>))
        normalized == CollapseWhitespace(stripped)
    IN IF Len(normalized) > MaxQueryLength
       THEN SubSeq(normalized, 1, MaxQueryLength)
       ELSE normalized

(***************************************************************************)
(* assessQueryComplexity and validateClientId                              *)
(***************************************************************************)
\* technicalTerms of assessQueryComplexity
TechnicalTerms ==
    {<<"a","n","a","l","y","s","i","s">>,
     <<"c","o","m","p","a","r","i","s","o","n">>,
     <<"e","v","a","l","u","a","t","i","o","n">>,
     <<"m","e","t","h","o","d","o","l","o","g","y">>,
     <<"f","r","a","m","e","w","o","r","k">>,
     <<"i","m","p","l","e","m","e","n","t","a","t","i","o","n">>,
     <<"a","r","c","h","i","t","e","c","t","u","r","e">>,
     <<"a","l","g","o","r","i","t","h","m">>,
     <<"o","p","t","i","m","i","z","a","t","i","o","n">>,
     <<"r","e","s","e","a","r","c","h">>,
     <<"s","t","u","d","y">>,
     <<"i","n","v","e","s","t","i","g","a","t","i","o","n">>,
     <<"a","s","s","e","s","s","m","e","n","t">>,
     <<"r","e","v","i","e","w">>}

\* topicIndicators of assessQueryComplexity
TopicIndicators ==
    {<<"a","n","d">>,
     <<"o","r">>,
     <<"v","e","r","s","u","s">>,
     <<"v","s">>,
     <<"c","o","m","p","a","r","e","d"," ","t","o">>,
     <<"a","s"," ","w","e","l","l"," ","a","s">>}

\* (query.match(/\?/g) || []).length
QuestionCount(query) == Cardinality({i \in 1..Len(query) : query[i] = "?"})

\* the number of the terms that query.toLowerCase() includes
IncludedCount(query, terms) ==
    Cardinality({t \in terms : Includes(ToLowerCase(query), t)})

\* a count above hi scores 2, one above lo scores 1
FactorScore(count, lo, hi) == IF count > hi THEN 2 ELSE IF count > lo THEN 1 ELSE 0

complexityScore(query) ==
    FactorScore(Len(query), 100, 200)
    + FactorScore(QuestionCount(query), 1, 3)
    + FactorScore(IncludedCount(query, TechnicalTerms), 1, 3)
    + FactorScore(IncludedCount(query, TopicIndicators), 0, 2)

assessQueryComplexity(query) ==
    IF complexityScore(query) >= 5 THEN "high"
    ELSE IF complexityScore(query) >= 2 THEN "medium"
    ELSE "low"

\* what validateBusinessRules logs as a warning; it adds nothing to the errors
BusinessRuleWarnings(req) ==
    IF req.accuracy_level = "medium"
       /\ assessQueryComplexity(req.research_query.chars) = "high"
    THEN <<"Complex query with medium accuracy level">>
    ELSE <<>>

MinClientIdLength == 3
MaxClientIdLength == 100

\* the characters of /^[a-zA-Z0-9_\-\.]+$/
ClientIdChars == LowerLetters \cup UpperLetters \cup Digits \cup {"_", "-", "."}

\* validateClientId with the character test before the length test
validateClientId_FormatFirst(clientId) ==
    IF clientId.kind # "string" \/ clientId.chars = <<>>
    THEN InvalidResult(clientId,
            <<ValidationIssue("clientId", "required",
                  "Client ID is required and must be a string")>>)
    ELSE IF \E i \in 1..Len(clientId.chars) : clientId.chars[i] \notin ClientIdChars
    THEN InvalidResult(clientId,
            <<ValidationIssue("clientId", "format",
                  "Client ID can only contain alphanumeric characters, underscores, hyphens, and periods")>>)
    ELSE IF Len(clientId.chars) < MinClientIdLength \/ Len(clientId.chars) > MaxClientIdLength
    THEN InvalidResult(clientId,
            <<ValidationIssue("clientId", "length",
                  "Client ID must be between 3 and 100 characters")>>)
    ELSE ValidResult(clientId)

\* validateClientId with a failure that carries no error
validateClientId_SilentFailure(clientId) ==
    IF clientId.kind # "string" \/ clientId.chars = <<>>
    THEN InvalidResult(clientId, <<>>)
    ELSE IF Len(clientId.chars) < MinClientIdLength \/ Len(clientId.chars) > MaxClientIdLength
    THEN InvalidResult(clientId, <<>>)
    ELSE IF \E i \in 1..Len(clientId.chars) : clientId.chars[i] \notin ClientIdChars
    THEN InvalidResult(clientId, <<>>)
    ELSE ValidResult(clientId)

\* validateClientId: required, then length, then format
validateClientId(clientId) ==
    IF clientId.kind # "string" \/ clientId.chars = <<>>
    THEN InvalidResult(clientId,
            <<ValidationIssue("clientId", "required",
                  "Client ID is required and must be a string")>>)
    ELSE IF Len(clientId.chars) < MinClientIdLength \/ Len(clientId.chars) > MaxClientIdLength
    THEN InvalidResult(clientId,
            <<ValidationIssue("clientId", "length",
                  "Client ID must be between 3 and 100 characters")>>)
    ELSE IF \E i \in 1..Len(clientId.chars) : clientId.chars[i] \notin ClientIdChars
    THEN InvalidResult(clientId,
            <<ValidationIssue("clientId", "format",
                  "Client ID can only contain alphanumeric characters, underscores, hyphens, and periods")>>)
    ELSE ValidResult(clientId)

(***************************************************************************)
(* OpenAIDeepResearchClient                                                *)
(***************************************************************************)
getModelForAccuracy(accuracyLevel) ==
    IF accuracyLevel = "high" THEN "o3-deep-research" ELSE "o4-mini-deep-research"

\* texts of the external response, as characters
Text_report  == <<"o","k"," ","[","1","]">>
Text_spaces  == <<" "," ">>

Usage(i, o) == [input_tokens |-> i, output_tokens |-> o, total_tokens |-> i + o]

\* a response of openai.responses.create; an optional field is <<>> or <<value>>
Response(st, ot, items, tx, ct, us) ==
    [status |-> st, output_text |-> ot, output |-> items,
     text |-> tx, content |-> ct, usage |-> us]

MessageItem(parts) == [type |-> "message", content |-> parts]
ContentPart(t, tx) == [type |-> t, text |-> tx]

\* a field that holds a non-empty string
Truthy(f) == f # Absent /\ f[1] # <<>>

\* Method 1: the output_text convenience field, trimmed
ExtractOutputText(response) ==
    IF Truthy(response.output_text) /\ Len(Trim(response.output_text[1])) > 0
    THEN Trim(response.output_text[1])
    ELSE <<>>

\* the text of the first output_text/text part of a message item with a truthy text
RECURSIVE ScanParts(_)
ScanParts(parts) ==
    IF parts = <<>> THEN <<>>
    ELSE IF Head(parts).type \in {"output_text", "text"} /\ Truthy(Head(parts).text)
         THEN Head(parts).text[1]
         ELSE ScanParts(Tail(parts))

\* Method 2: the output items, in order; stops at the first item that gave content
RECURSIVE ScanOutput(_)
ScanOutput(items) ==
    IF items = <<>> THEN <<>>
    ELSE LET found == IF Head(items).type = "message"
                      THEN ScanParts(Head(items).content) ELSE <<>>
         IN IF found # <<>> THEN found ELSE ScanOutput(Tail(items))

\* Method 3: top-level text, then content
ExtractFallback(response) ==
    IF Truthy(response.text) THEN response.text[1]
    ELSE IF Truthy(response.content) THEN response.content[1]
    ELSE <<>>

ParsingErrorPlaceholder == <<"[Content parsing error: OpenAI generated tokens but content extraction failed]">>
NoContentPlaceholder == <<"No content returned from OpenAI">>

\* the extraction without the final fallback: what the three methods found
ExtractContent_NoPlaceholder(response) ==
    LET m1 == ExtractOutputText(response)
        m2 == IF m1 = <<>> THEN ScanOutput(response.output) ELSE m1
    IN IF m2 = <<>> THEN ExtractFallback(response) ELSE m2

ExtractContent(response) ==
    LET m1 == ExtractOutputText(response)
        m2 == IF m1 = <<>> THEN ScanOutput(response.output) ELSE m1
        m3 == IF m2 = <<>> THEN ExtractFallback(response) ELSE m2
    IN IF m3 = <<>> \/ Len(Trim(m3)) = 0
       THEN IF response.usage # Absent /\ response.usage[1].output_tokens > 0
            THEN ParsingErrorPlaceholder
            ELSE NoContentPlaceholder
       ELSE m3

\* cost per 1K tokens in units of 0.0001 USD: 0.02 and 0.006
CostPer1kHigh == 200
CostPer1kMedium == 60
TokensPerCostUnit == 1000

\* n / d rounded to the nearest integer, halves up
RoundDiv(n, d) == (2 * n + d) \div (2 * d)

\* (totalTokens / 1000) * 0.006 is computed in IEEE-754 doubles.  Where the real
\* product lies halfway between two multiples of 0.0001 (the odd multiples of 25
\* tokens) the double lies just above or just below the halfway point; these
\* are the totals up to 1000 at which it lies below.  The rate 0.02 has no
\* halfway case.
DoubleBelowHalfway == {75, 175, 575, 625, 725, 825}

\* parseFloat(estimatedCost.toFixed(4)) in units of 0.0001 USD: the multiple
\* nearest to the double
toFixed4(totalTokens, rate) ==
    IF rate = CostPer1kMedium /\ totalTokens \in DoubleBelowHalfway
    THEN (totalTokens * rate) \div TokensPerCostUnit
    ELSE RoundDiv(totalTokens * rate, TokensPerCostUnit)

\* calculateCosts: estimated_cost_usd in units of 0.0001 USD
calculateCosts(accuracyLevel, usage) ==
    LET rate == IF accuracyLevel = "high" THEN CostPer1kHigh ELSE CostPer1kMedium
        totalTokens == IF usage = Absent THEN 0 ELSE usage[1].total_tokens
    IN [estimated_cost_usd |-> toFixed4(totalTokens, rate),
        cost_per_1k_tokens |-> rate,
        billing_tier |-> IF accuracyLevel = "high" THEN "premium" ELSE "standard"]

\* what the external service does with one responses.create call
ServiceThrows(msg) == [threw |-> TRUE, message |-> msg,
                       response |-> Response("failed", Absent, <<>>, Absent, Absent, Absent)]
ServiceReturns(r) == [threw |-> FALSE, message |-> <<>>, response |-> r]
NoOutcome == ServiceThrows(<<"(no call)">>)

IncompleteMessage ==
    <<"OpenAI Deep Research response incomplete. The model is still processing your request. ",
      "Please try again in a few moments.",
      " Status: incomplete">>

WrappedError(msg) == <<"OpenAI Deep Research failed: ">> \o msg

NoResult == [research_results |-> <<>>, model_used |-> "",
             token_usage |-> Usage(0, 0),
             cost_info |-> calculateCosts("medium", Absent)]

\* performDeepResearch after the responses.create call has settled: either the
\* DoDeepResearchResponse or the Error thrown by the catch block
performDeepResearch(req, outcome) ==
    IF outcome.threw
    THEN [ok |-> FALSE, error |-> WrappedError(outcome.message), result |-> NoResult]
    ELSE IF outcome.response.status = "incomplete"
    THEN [ok |-> FALSE, error |-> WrappedError(IncompleteMessage), result |-> NoResult]
    ELSE [ok |-> TRUE, error |-> <<>>,
          result |-> [research_results |-> ExtractContent(outcome.response),
                      model_used |-> getModelForAccuracy(req.accuracy_level),
                      token_usage |-> IF outcome.response.usage = Absent
                                      THEN Usage(0, 0) ELSE outcome.response.usage[1],
                      cost_info |-> calculateCosts(req.accuracy_level,
                                                   outcome.response.usage)]]

(***************************************************************************)
(* ResearchRateLimiter                                                     *)
(***************************************************************************)
\* Date.now() is counted in minutes
Hour == 60
Day == 1440
RetentionWindow == 2880

DefaultHourlyLimitHigh == 3
DefaultHourlyLimitMedium == 6
DefaultDailyLimitHigh == 8
DefaultDailyLimitMedium == 15

Levels == {"high", "medium"}
ServerClient == "default_client"
Clients == {ServerClient, "other_client"}

\* a Map as a function on its keys
EmptyMap == << >>
MapHas(m, k) == k \in DOMAIN m
MapGetOr0(m, k) == IF k \in DOMAIN m THEN m[k] ELSE 0
MapSet(m, k, v) == [x \in (DOMAIN m) \cup {k} |-> IF x = k THEN v ELSE m[x]]
MapDelete(m, ks) == [x \in (DOMAIN m) \ ks |-> m[x]]

HourKey(h) == <<"hour", h>>
DayKey(d, lvl) == <<"day", d, lvl>>
CostKey(d) == <<"cost", d>>

CurrentHour(t) == t \div Hour
CurrentDay(t) == t \div Day

NewUsage(t) == [requestCounts |-> EmptyMap, totalCost |-> 0, lastRequestTime |-> t]

\* "get or create client usage"
UsageOf(usageMap, c, t) == IF MapHas(usageMap, c) THEN usageMap[c] ELSE NewUsage(t)

getHourlyLimit(cfg, lvl) ==
    IF lvl = "high"
    THEN (IF cfg.high_accuracy_daily_limit # 0
          THEN cfg.high_accuracy_daily_limit ELSE DefaultHourlyLimitHigh)
    ELSE (IF cfg.medium_accuracy_daily_limit # 0
          THEN cfg.medium_accuracy_daily_limit ELSE DefaultHourlyLimitMedium)

getDailyLimit(cfg, lvl) ==
    IF lvl = "high"
    THEN (IF cfg.high_accuracy_daily_limit # 0
          THEN cfg.high_accuracy_daily_limit ELSE DefaultDailyLimitHigh)
    ELSE (IF cfg.medium_accuracy_daily_limit # 0
          THEN cfg.medium_accuracy_daily_limit ELSE DefaultDailyLimitMedium)

getDailyCost(usage, currentDay) == MapGetOr0(usage.requestCounts, CostKey(currentDay))

getDailyRequests(usage, currentDay, lvl) ==
    MapGetOr0(usage.requestCounts, DayKey(currentDay, lvl))

Max0(x) == IF x > 0 THEN x ELSE 0
MinOf(a, b) == IF a <= b THEN a ELSE b

RateLimitResult(a, why, rem, retry, costRem) ==
    [allowed |-> a, reason |-> why, remaining |-> rem,
     retryAfter |-> retry, costRemaining |-> costRem]

\* the hourly test with > in place of >=
HourlyLimitExceeded_Strict(hourlyRequests, hourlyLimit) == hourlyRequests > hourlyLimit

\* "if (hourlyRequests >= hourlyLimit)"
HourlyLimitExceeded(hourlyRequests, hourlyLimit) == hourlyRequests >= hourlyLimit

\* "if (estimatedCost && (dailyCost + estimatedCost) > daily_cost_limit_usd)";
\* estimatedCost is <<>> when omitted
CostLimitExceeded(dailyCost, estimatedCost, cap) ==
    /\ estimatedCost # Absent
    /\ estimatedCost[1] # 0
    /\ dailyCost + estimatedCost[1] > cap

\* the daily test with > in place of >=
DailyLimitExceeded_Strict(dailyRequests, dailyLimit) == dailyRequests > dailyLimit

\* "if (dailyRequests >= dailyLimit)"
DailyLimitExceeded(dailyRequests, dailyLimit) == dailyRequests >= dailyLimit

\* the remaining quota computed from the hourly count alone
RemainingQuota_HourlyOnly(hourlyLimit, hourlyRequests, dailyLimit, dailyRequests) ==
    hourlyLimit - hourlyRequests - 1

\* remaining of an allowed request
RemainingQuota(hourlyLimit, hourlyRequests, dailyLimit, dailyRequests) ==
    MinOf(hourlyLimit - hourlyRequests - 1, dailyLimit - dailyRequests - 1)

\* checkRateLimit with the daily count tested before the projected cost
checkRateLimitResult_DailyBeforeCost(cfg, usage, t, lvl, estimatedCost) ==
    LET currentHour == CurrentHour(t)
        currentDay == CurrentDay(t)
        hourlyRequests == MapGetOr0(usage.requestCounts, HourKey(currentHour))
        hourlyLimit == getHourlyLimit(cfg, lvl)
        dailyCost == getDailyCost(usage, currentDay)
        dailyRequests == getDailyRequests(usage, currentDay, lvl)
        dailyLimit == getDailyLimit(cfg, lvl)
    IN IF HourlyLimitExceeded(hourlyRequests, hourlyLimit)
       THEN RateLimitResult(FALSE, "hourly_limit", 0, (currentHour + 1) * Hour,
                            cfg.daily_cost_limit_usd - usage.totalCost)
       ELSE IF DailyLimitExceeded(dailyRequests, dailyLimit)
       THEN RateLimitResult(FALSE, "daily_limit", 0, (currentDay + 1) * Day,
                            Max0(cfg.daily_cost_limit_usd - dailyCost))
       ELSE IF CostLimitExceeded(dailyCost, estimatedCost, cfg.daily_cost_limit_usd)
       THEN RateLimitResult(FALSE, "cost_limit", hourlyLimit - hourlyRequests,
                            (currentDay + 1) * Day,
                            Max0(cfg.daily_cost_limit_usd - dailyCost))
       ELSE RateLimitResult(TRUE, "none",
                            RemainingQuota(hourlyLimit, hourlyRequests,
                                           dailyLimit, dailyRequests),
                            (currentHour + 1) * Hour,
                            Max0(cfg.daily_cost_limit_usd - dailyCost))

\* the RateLimitResult of checkRateLimit for a client whose usage record is
\* usage, at time t
checkRateLimitResult(cfg, usage, t, lvl, estimatedCost) ==
    LET currentHour == CurrentHour(t)
        currentDay == CurrentDay(t)
        hourlyRequests == MapGetOr0(usage.requestCounts, HourKey(currentHour))
        hourlyLimit == getHourlyLimit(cfg, lvl)
        dailyCost == getDailyCost(usage, currentDay)
        dailyRequests == getDailyRequests(usage, currentDay, lvl)
        dailyLimit == getDailyLimit(cfg, lvl)
    IN IF HourlyLimitExceeded(hourlyRequests, hourlyLimit)
       THEN RateLimitResult(FALSE, "hourly_limit", 0, (currentHour + 1) * Hour,
                            cfg.daily_cost_limit_usd - usage.totalCost)
       ELSE IF CostLimitExceeded(dailyCost, estimatedCost, cfg.daily_cost_limit_usd)
       THEN RateLimitResult(FALSE, "cost_limit", hourlyLimit - hourlyRequests,
                            (currentDay + 1) * Day,
                            Max0(cfg.daily_cost_limit_usd - dailyCost))
       ELSE IF DailyLimitExceeded(dailyRequests, dailyLimit)
       THEN RateLimitResult(FALSE, "daily_limit", 0, (currentDay + 1) * Day,
                            Max0(cfg.daily_cost_limit_usd - dailyCost))
       ELSE RateLimitResult(TRUE, "none",
                            RemainingQuota(hourlyLimit, hourlyRequests,
                                           dailyLimit, dailyRequests),
                            (currentHour + 1) * Hour,
                            Max0(cfg.daily_cost_limit_usd - dailyCost))

\* recordRequest keeping one hour counter per accuracy level
recordedUsage_HourPerLevel(usage, t, lvl, actualCost) ==
    LET hourKey == <<"hour", CurrentHour(t), lvl>>
        dailyKey == DayKey(CurrentDay(t), lvl)
        costKey == CostKey(CurrentDay(t))
        c1 == MapSet(usage.requestCounts, hourKey,
                     MapGetOr0(usage.requestCounts, hourKey) + 1)
        c2 == MapSet(c1, dailyKey, MapGetOr0(c1, dailyKey) + 1)
        c3 == MapSet(c2, costKey, MapGetOr0(c2, costKey) + actualCost)
    IN [requestCounts |-> c3,
        totalCost |-> usage.totalCost + actualCost,
        lastRequestTime |-> t]

\* the usage record after recordRequest
recordedUsage(usage, t, lvl, actualCost) ==
    LET hourKey == HourKey(CurrentHour(t))
        dailyKey == DayKey(CurrentDay(t), lvl)
        costKey == CostKey(CurrentDay(t))
        c1 == MapSet(usage.requestCounts, hourKey,
                     MapGetOr0(usage.requestCounts, hourKey) + 1)
        c2 == MapSet(c1, dailyKey, MapGetOr0(c1, dailyKey) + 1)
        c3 == MapSet(c2, costKey, MapGetOr0(c2, costKey) + actualCost)
    IN [requestCounts |-> c3,
        totalCost |-> usage.totalCost + actualCost,
        lastRequestTime |-> t]

\* the sweep keeping the current hour and day only
StaleKeys_CurrentOnly(counts, t) ==
    {k \in DOMAIN counts :
        \/ k[1] = "hour" /\ k[2] < CurrentHour(t)
        \/ k[1] \in {"day", "cost"} /\ k[2] < CurrentDay(t)}

\* the sweep of the hour buckets alone
StaleKeys_HoursOnly(counts, t) ==
    {k \in DOMAIN counts : k[1] = "hour" /\ k[2] < CurrentHour(t) - 1}

\* the keys cleanupOldEntries deletes from one client's requestCounts
StaleKeys(counts, t) ==
    {k \in DOMAIN counts :
        \/ k[1] = "hour" /\ k[2] < CurrentHour(t) - 1
        \/ k[1] \in {"day", "cost"} /\ k[2] < CurrentDay(t) - 1}

\* clientUsage after cleanupOldEntries
cleanedUsage(usageMap, t) ==
    LET kept == {c \in DOMAIN usageMap : ~(usageMap[c].lastRequestTime < t - RetentionWindow)}
    IN [c \in kept |->
           [usageMap[c] EXCEPT !.requestCounts = MapDelete(@, StaleKeys(@, t))]]

getUsageStats(usageMap, c, t) ==
    IF ~MapHas(usageMap, c)
    THEN [hourlyRequests |-> 0, dailyCost |-> 0,
          highAccuracyRequests |-> 0, mediumAccuracyRequests |-> 0]
    ELSE LET counts == usageMap[c].requestCounts IN
         [hourlyRequests |-> MapGetOr0(counts, HourKey(CurrentHour(t))),
          dailyCost |-> MapGetOr0(counts, CostKey(CurrentDay(t))),
          highAccuracyRequests |-> MapGetOr0(counts, DayKey(CurrentDay(t), "high")),
          mediumAccuracyRequests |-> MapGetOr0(counts, DayKey(CurrentDay(t), "medium"))]

(***************************************************************************)
(* The limiter when something it relies on has failed                      *)
(*                                                                         *)
(* usage_entry: the usage records of the clients named in the fault are    *)
(*              corrupted (requestCounts is no Map), so reading one throws *)
(* config:      this.config is unusable, so reading a field of it throws   *)
(* logger:      the calls of the logger throw                              *)
(***************************************************************************)
FaultKinds == {"usage_entry", "config", "logger"}

NoFault == [kind |-> "none", clients |-> {}]

\* the try block of checkRateLimit throws: at the read of the client's record
\* (line 667), in getHourlyLimit (line 669), or at the logger.warn of a denial
CheckTryThrows(flt, c, result) ==
    \/ flt.kind = "usage_entry" /\ c \in flt.clients
    \/ flt.kind = "config"
    \/ flt.kind = "logger" /\ ~result.allowed

\* the catch block of checkRateLimit calls logger.error and then reads
\* this.config.daily_cost_limit_usd for the result it returns
CheckCatchThrows(flt) == flt.kind \in {"logger", "config"}

\* the result the catch block of checkRateLimit returns
FailOpenResult(cfg, t) ==
    RateLimitResult(TRUE, "none", 0, t + Hour, cfg.daily_cost_limit_usd)

NoRateLimitResult == RateLimitResult(FALSE, "none", 0, 0, 0)

CallOutcome(operation, didFail, didThrow, res) ==
    [called |-> TRUE, op |-> operation, failed |-> didFail, threw |-> didThrow,
     result |-> res]

NoCallOutcome ==
    [called |-> FALSE, op |-> "none", failed |-> FALSE, threw |-> FALSE,
     result |-> NoRateLimitResult]

\* how checkRateLimit comes back under the fault
checkRateLimitOutcome(cfg, usage, c, t, lvl, estimatedCost, flt) ==
    LET result == checkRateLimitResult(cfg, usage, t, lvl, estimatedCost) IN
    IF ~CheckTryThrows(flt, c, result)
    THEN CallOutcome("checkRateLimit", FALSE, FALSE, result)
    ELSE IF CheckCatchThrows(flt)
    THEN CallOutcome("checkRateLimit", TRUE, TRUE, NoRateLimitResult)
    ELSE CallOutcome("checkRateLimit", TRUE, FALSE, FailOpenResult(cfg, t))

\* the try block of recordRequest throws at the read of the client's record
\* (line 778), before anything is written
RecordThrowsBeforeWrite(flt, c) == flt.kind = "usage_entry" /\ c \in flt.clients

\* the try block of recordRequest throws at logger.debug (line 795), after the
\* counts are written
RecordThrowsAfterWrite(flt) == flt.kind = "logger"

\* the catch block of recordRequest calls logger.error
RecordCatchThrows(flt) == flt.kind = "logger"

\* how recordRequest comes back under the fault
recordRequestOutcome(c, flt) ==
    IF ~(RecordThrowsBeforeWrite(flt, c) \/ RecordThrowsAfterWrite(flt))
    THEN CallOutcome("recordRequest", FALSE, FALSE, NoRateLimitResult)
    ELSE CallOutcome("recordRequest", TRUE, RecordCatchThrows(flt), NoRateLimitResult)

(***************************************************************************)
(* Bounds and inputs                                                       *)
(***************************************************************************)
MaxRecords == 3
MaxTicks == 2

\* costs in cents; the daily cap of 25.00 USD
DailyCostCap == 2500
ActualCosts == {1500}
EstimatedCosts == {Absent, Given(0), Given(1200)}

\* the client whose requests are checked; the other client records next to it
CheckedClients == {ServerClient}

\* clock advances: into the next hour, a full day
TickSteps == {30, Day}
StartTime == 3 * Day + 22 * Hour + 30

\* a limit of 0 stands for an unset one and selects the built-in default
ConfiguredLimits == {<<2, 3>>, <<0, 0>>}

Configs ==
    {[high_accuracy_daily_limit |-> l[1], medium_accuracy_daily_limit |-> l[2],
      daily_cost_limit_usd |-> DailyCostCap] : l \in ConfiguredLimits}

DefaultConfig ==
    [high_accuracy_daily_limit |-> 2, medium_accuracy_daily_limit |-> 3,
     daily_cost_limit_usd |-> DailyCostCap]

Queries ==
    {StringValue(Chars_hello), StringValue(Chars_solar), StringValue(Chars_padded),
     StringValue(Chars_tabbed), StringValue(Chars_tagged), StringValue(Chars_script),
     StringValue(Chars_blank), StringValue(Chars_special), StringValue(Chars_repeated),
     StringValue(Chars_long), UndefinedValue, NullValue, NumberValue,
     StringValue(Chars_scriptTag), StringValue(Chars_eval), StringValue(Chars_handler),
     StringValue(Chars_dataUrl), StringValue(Chars_function), StringValue(Chars_complex)}

ObjectRequests ==
    [isObject : {TRUE},
     research_query : Queries,
     accuracy_level : {"high", "medium", "low", "undefined"},
     max_tokens : {Absent, Given(100), Given(1000), Given(3000)},
     temperature : {Absent, Given(30), Given(70)},
     include_sources : {Absent},
     response_format : {"undefined", "summary", "detailed"}]

\* the request value null
NullRequest ==
    [isObject |-> FALSE, research_query |-> UndefinedValue, accuracy_level |-> "undefined",
     max_tokens |-> Absent, temperature |-> Absent, include_sources |-> Absent,
     response_format |-> "undefined"]

Requests == ObjectRequests \cup {NullRequest}

RequestIds == {"req_1", "req_2"}

\* the concurrent requests of one client
Flights == {1, 2}

\* pieces the strings given to sanitizeQuery and validateClientId are put together from
MaxFragments == 3
Fragments ==
    {<<"j","a","v","a">>,
     <<"s","c","r","i","p","t",":">>,
     <<"j","a","v","a","s","c","r","i","p","t",":">>,
     <<"d","a","t","a",":","t","e","x","t","/","h","t","m","l">>,
     <<"<">>,
     <<">">>,
     <<"<","b",">">>,
     <<" ">>}

RECURSIVE Concat(_)
Concat(pieces) == IF pieces = <<>> THEN <<>> ELSE Head(pieces) \o Concat(Tail(pieces))

FragmentStrings ==
    {Concat(pieces) : pieces \in UNION {[1..n -> Fragments] : n \in 0..MaxFragments}}

Subjects ==
    {StringValue(x) : x \in FragmentStrings}
    \cup {StringValue(Chars_long), StringValue(Chars_longSpaced),
          StringValue([i \in 1..MaxClientIdLength |-> "a"]),
          StringValue([i \in 1..(MaxClientIdLength + 1) |-> "a"]),
          StringValue(<<"A","_","b","-","9",".">>),
          UndefinedValue, NumberValue}

NoSubject == [kind |-> "none", chars |-> <<>>]

\* number of successive sanitizeQuery applications followed
MaxPasses == 2

ServiceOutcomes ==
    {ServiceThrows(<<"Connection error.">>),
     ServiceReturns(Response("completed", Given(Text_report), <<>>, Absent, Absent,
                             Given(Usage(1000, 4000)))),
     ServiceReturns(Response("completed", Absent,
                             <<MessageItem(<<ContentPart("output_text", Given(Text_report))>>)>>,
                             Absent, Absent, Given(Usage(10, 20)))),
     ServiceReturns(Response("completed", Absent, <<>>, Absent, Absent, Absent)),
     ServiceReturns(Response("incomplete", Absent, <<>>, Absent, Absent,
                             Given(Usage(1000, 500))))}

\* responses of the external service in the shapes the extraction looks at;
\* every place holds a text of its own
Text_convenience == <<" ","r","1"," ">>
Text_message     == <<"r","2">>
Text_laterItem   == <<"r","3">>
Text_fallback    == <<"r","4">>
Text_content     == <<"r","5">>

OutputTexts == {Absent, Given(<<>>), Given(Text_spaces), Given(Text_convenience)}

ReasoningItem == [type |-> "reasoning", content |-> <<>>]

OutputLists ==
    {<<>>,
     <<MessageItem(<<ContentPart("output_text", Given(Text_message))>>)>>,
     <<ReasoningItem,
       MessageItem(<<ContentPart("refusal", Given(Text_laterItem)),
                     ContentPart("text", Given(Text_message))>>)>>,
     <<MessageItem(<<ContentPart("output_text", Given(Text_spaces))>>)>>,
     <<MessageItem(<<ContentPart("text", Given(<<>>))>>),
       MessageItem(<<ContentPart("output_text", Given(Text_laterItem))>>)>>}

TextFields == {Absent, Given(Text_spaces), Given(Text_fallback)}
ContentFields == {Absent, Given(Text_content)}

TokenUsages ==
    {Absent, Given(Usage(0, 0)), Given(Usage(50, 0)), Given(Usage(10, 20)),
     Given(Usage(5, 20)), Given(Usage(25, 50)), Given(Usage(1000, 4000))}

CompletedResponses ==
    {Response("completed", ot, items, tx, ct, us) :
        ot \in OutputTexts, items \in OutputLists, tx \in TextFields,
        ct \in ContentFields, us \in TokenUsages}

\* the requests the research client is exercised with
ResearchRequests ==
    {[isObject |-> TRUE, research_query |-> StringValue(q),
      accuracy_level |-> lvl, max_tokens |-> Absent, temperature |-> Absent,
      include_sources |-> Absent, response_format |-> "undefined"] :
        q \in {Chars_solar, Chars_spaced}, lvl \in {"high", "medium"}}

(***************************************************************************)
(* handleDeepResearchRequest                                               *)
(***************************************************************************)
Envelope(k, id, err, ts, res) ==
    [kind |-> k, success |-> (k = "success"), error |-> err, request_id |-> id,
     hasTimestamp |-> ts, result |-> res, rate_limit_remaining |-> 100]

NoEnvelope == [kind |-> "none", success |-> FALSE, error |-> <<>>, request_id |-> "",
               hasTimestamp |-> FALSE, result |-> NoResult, rate_limit_remaining |-> 0]

NoValidation == InvalidResult(NullRequest, <<>>)

\* `${e.field}: ${e.message}` of every error, joined
RECURSIVE ErrorTexts(_)
ErrorTexts(errs) ==
    IF errs = <<>> THEN <<>>
    ELSE <<Head(errs).field, ": ", Head(errs).message>>
         \o (IF Len(errs) > 1 THEN <<", ">> ELSE <<>>) \o ErrorTexts(Tail(errs))

\* the validation_error envelope quoting the rejected query after the messages
ValidationErrorEnvelope_EchoesQuery(id, result) ==
    Envelope("validation_error", id,
             <<"Request validation failed: ">> \o ErrorTexts(result.errors)
                 \o result.data.research_query.chars, FALSE, NoResult)

ValidationErrorEnvelope(id, result) ==
    Envelope("validation_error", id,
             <<"Request validation failed: ">> \o ErrorTexts(result.errors), FALSE, NoResult)

InternalErrorEnvelope(id, msg) == Envelope("internal_error", id, msg, TRUE, NoResult)

SuccessEnvelope(id, res) == Envelope("success", id, <<>>, TRUE, res)

\* the logging before the try block reads request.accuracy_level and
\* request.research_query.length
EntryLoggingThrows(req) ==
    \/ ~req.isObject
    \/ req.research_query.kind \in {"undefined", "null"}

\* the tool callback is invoked: requestId is generated and the request logged
Invoke(req, id) ==
    /\ pc = "IDLE"
    /\ request' = req
    /\ requestId' = id
    /\ pc' = IF EntryLoggingThrows(req) THEN "FAULT" ELSE "RECEIVED"
    /\ trace' = <<"RECEIVED">>
    /\ UNCHANGED <<validation, sanitizedQuery, apiCalls, researchCalls,
                   limiterCalls, serviceOutcome, envelope>>
    /\ UNCHANGED <<limiterVars, auxVars>>

\* Validate without the isValid test: every request is taken as valid
Validate_IgnoresResult ==
    /\ pc = "RECEIVED"
    /\ validation' = validateResearchRequest(request)
    /\ pc' = "VALID"
    /\ trace' = trace \o <<"VALIDATING", pc'>>
    /\ UNCHANGED <<request, requestId, sanitizedQuery, apiCalls, researchCalls,
                   limiterCalls, serviceOutcome, envelope>>
    /\ UNCHANGED <<limiterVars, auxVars>>

\* Step 1: validateResearchRequest
Validate ==
    /\ pc = "RECEIVED"
    /\ validation' = validateResearchRequest(request)
    /\ pc' = IF validation'.isValid THEN "VALID" ELSE "INVALID"
    /\ trace' = trace \o <<"VALIDATING", pc'>>
    /\ UNCHANGED <<request, requestId, sanitizedQuery, apiCalls, researchCalls,
                   limiterCalls, serviceOutcome, envelope>>
    /\ UNCHANGED <<limiterVars, auxVars>>

\* the validation_error return
Reject ==
    /\ pc = "INVALID"
    /\ envelope' = ValidationErrorEnvelope(requestId, validation)
    /\ pc' = "REJECTED"
    /\ trace' = Append(trace, "REJECTED")
    /\ UNCHANGED <<request, requestId, validation, sanitizedQuery, apiCalls,
                   researchCalls, limiterCalls, serviceOutcome>>
    /\ UNCHANGED <<limiterVars, auxVars>>

\* Step 2: sanitizeQuery on the validated query
Sanitize ==
    /\ pc = "VALID"
    /\ sanitizedQuery' = sanitizeQuery(validation.data.research_query.chars)
    /\ pc' = "SANITIZING"
    /\ trace' = Append(trace, "SANITIZING")
    /\ UNCHANGED <<request, requestId, validation, apiCalls, researchCalls,
                   limiterCalls, serviceOutcome, envelope>>
    /\ UNCHANGED <<limiterVars, auxVars>>

\* performDeepResearch called with the validated request as it is
ResearchQueryInput_Unsanitized == validation.data.research_query.chars

\* the query performDeepResearch is called with
ResearchQueryInput == sanitizedQuery

\* Step 3: performDeepResearch issues openai.responses.create and awaits it
CallService ==
    /\ pc = "SANITIZING"
    /\ researchCalls' = researchCalls + 1
    /\ apiCalls' = Append(apiCalls,
                          [model |-> getModelForAccuracy(validation.data.accuracy_level),
                           input |-> ResearchQueryInput,
                           web_search |-> TRUE])
    /\ pc' = "CALLING_SERVICE"
    /\ trace' = Append(trace, "CALLING_SERVICE")
    /\ UNCHANGED <<request, requestId, validation, sanitizedQuery,
                   limiterCalls, serviceOutcome, envelope>>
    /\ UNCHANGED <<limiterVars, auxVars>>

\* the catch block answering with the fixed text only
InternalErrorText_Generic(message) == <<"An unexpected error occurred">>

\* the error text of the internal_error envelope
InternalErrorText(message) == message

\* the await settles: the success return, or the catch block's internal_error
ServiceSettles(outcome) ==
    /\ pc = "CALLING_SERVICE"
    /\ serviceOutcome' = outcome
    /\ LET r == performDeepResearch(validation.data, outcome) IN
       IF r.ok
       THEN /\ envelope' = SuccessEnvelope(requestId, r.result)
            /\ pc' = "SUCCEEDED"
       ELSE /\ envelope' = InternalErrorEnvelope(requestId, InternalErrorText(r.error))
            /\ pc' = "FAILED"
    /\ trace' = Append(trace, pc')
    /\ UNCHANGED <<request, requestId, validation, sanitizedQuery, apiCalls,
                   researchCalls, limiterCalls>>
    /\ UNCHANGED <<limiterVars, auxVars>>

(***************************************************************************)
(* Rate limiter operations                                                 *)
(***************************************************************************)
NoCheck == [called |-> FALSE, clientId |-> "", accuracyLevel |-> "",
            estimatedCost |-> Absent,
            result |-> RateLimitResult(FALSE, "none", 0, 0, 0)]

NoRecorded == [c \in Clients |-> [hour |-> 0, count |-> 0]]

CheckRateLimit(c, lvl, est) ==
    /\ LET usage == UsageOf(clientUsage, c, now) IN
       /\ clientUsage' = MapSet(clientUsage, c, usage)
       /\ lastCheck' = [called |-> TRUE, clientId |-> c, accuracyLevel |-> lvl,
                        estimatedCost |-> est,
                        result |-> checkRateLimitResult(config, usage, now, lvl, est)]
    /\ UNCHANGED <<config, now, recorded, nRecords, nTicks>>
    /\ UNCHANGED <<handlerVars, auxVars>>

RecordRequest(c, lvl, actualCost) ==
    /\ nRecords < MaxRecords
    /\ nRecords' = nRecords + 1
    /\ clientUsage' = MapSet(clientUsage, c,
                             recordedUsage(UsageOf(clientUsage, c, now), now, lvl, actualCost))
    /\ recorded' = [recorded EXCEPT ![c] =
                       IF @.hour = CurrentHour(now)
                       THEN [@ EXCEPT !.count = @ + 1]
                       ELSE [hour |-> CurrentHour(now), count |-> 1]]
    /\ lastCheck' = NoCheck
    /\ UNCHANGED <<config, now, nTicks>>
    /\ UNCHANGED <<handlerVars, auxVars>>

CleanupOldEntries ==
    /\ clientUsage' = cleanedUsage(clientUsage, now)
    /\ lastCheck' = NoCheck
    /\ UNCHANGED <<config, now, recorded, nRecords, nTicks>>
    /\ UNCHANGED <<handlerVars, auxVars>>

Tick(d) ==
    /\ nTicks < MaxTicks
    /\ nTicks' = nTicks + 1
    /\ now' = now + d
    /\ lastCheck' = NoCheck
    /\ UNCHANGED <<config, clientUsage, recorded, nRecords>>
    /\ UNCHANGED <<handlerVars, auxVars>>

\* recordRequest by a caller that has just been allowed: the checkRateLimit
\* call for the same client and level is the operation before it
SerialRecordRequest(c, lvl, actualCost) ==
    /\ lastCheck.called
    /\ lastCheck.clientId = c
    /\ lastCheck.accuracyLevel = lvl
    /\ lastCheck.result.allowed
    /\ RecordRequest(c, lvl, actualCost)

(***************************************************************************)
(* Limiter calls under a fault                                             *)
(***************************************************************************)
\* a part the limiter relies on fails, and stays failed
InjectFault(kind) ==
    /\ fault = NoFault
    /\ fault' = [kind |-> kind, clients |-> DOMAIN clientUsage]
    /\ UNCHANGED <<callOutcome, inflight, subject, passes, idResult>>
    /\ UNCHANGED <<handlerVars, limiterVars>>

\* checkRateLimit; the record of an unknown client is created before anything
\* can throw
CheckUnderFault(c, lvl, est) ==
    /\ LET usage == UsageOf(clientUsage, c, now) IN
       /\ clientUsage' = MapSet(clientUsage, c, usage)
       /\ callOutcome' = checkRateLimitOutcome(config, usage, c, now, lvl, est, fault)
    /\ UNCHANGED <<config, now, lastCheck, recorded, nRecords, nTicks>>
    /\ UNCHANGED <<fault, inflight, subject, passes, idResult>>
    /\ UNCHANGED handlerVars

\* recordRequest; nothing is written when the read of the record throws
RecordUnderFault(c, lvl, actualCost) ==
    /\ nRecords < MaxRecords
    /\ nRecords' = nRecords + 1
    /\ clientUsage' =
          IF RecordThrowsBeforeWrite(fault, c) THEN clientUsage
          ELSE MapSet(clientUsage, c,
                      recordedUsage(UsageOf(clientUsage, c, now), now, lvl, actualCost))
    /\ callOutcome' = recordRequestOutcome(c, fault)
    /\ UNCHANGED <<config, now, lastCheck, recorded, nTicks>>
    /\ UNCHANGED <<fault, inflight, subject, passes, idResult>>
    /\ UNCHANGED handlerVars

(***************************************************************************)
(* Concurrent requests of one client: each calls checkRateLimit, and, when *)
(* allowed, recordRequest once its research has completed                  *)
(***************************************************************************)
IdleFlight ==
    [stage |-> "idle", level |-> "", recordsBefore |-> 0, result |-> NoRateLimitResult]

\* recordRequest calls made for the client so far
RecordsOf(c) == recorded[c].count

\* a checkRateLimit that takes the slot it grants
FlightCheck_Reserves(r, lvl) ==
    /\ inflight[r].stage = "idle"
    /\ LET usage == UsageOf(clientUsage, ServerClient, now)
           result == checkRateLimitResult(config, usage, now, lvl, Absent)
           hourKey == HourKey(CurrentHour(now))
       IN /\ clientUsage' =
                MapSet(clientUsage, ServerClient,
                       IF result.allowed
                       THEN [usage EXCEPT !.requestCounts =
                                MapSet(@, hourKey, MapGetOr0(@, hourKey) + 1)]
                       ELSE usage)
          /\ inflight' = [inflight EXCEPT ![r] =
                [stage |-> IF result.allowed THEN "checked" ELSE "denied",
                 level |-> lvl, recordsBefore |-> RecordsOf(ServerClient),
                 result |-> result]]
    /\ UNCHANGED <<config, now, lastCheck, recorded, nRecords, nTicks>>
    /\ UNCHANGED <<fault, callOutcome, subject, passes, idResult>>
    /\ UNCHANGED handlerVars

\* request r calls checkRateLimit
FlightCheck(r, lvl) ==
    /\ inflight[r].stage = "idle"
    /\ LET usage == UsageOf(clientUsage, ServerClient, now)
           result == checkRateLimitResult(config, usage, now, lvl, Absent)
       IN /\ clientUsage' = MapSet(clientUsage, ServerClient, usage)
          /\ inflight' = [inflight EXCEPT ![r] =
                [stage |-> IF result.allowed THEN "checked" ELSE "denied",
                 level |-> lvl, recordsBefore |-> RecordsOf(ServerClient),
                 result |-> result]]
    /\ UNCHANGED <<config, now, lastCheck, recorded, nRecords, nTicks>>
    /\ UNCHANGED <<fault, callOutcome, subject, passes, idResult>>
    /\ UNCHANGED handlerVars

\* request r, allowed, calls recordRequest
FlightRecord(r, actualCost) ==
    /\ inflight[r].stage = "checked"
    /\ clientUsage' = MapSet(clientUsage, ServerClient,
                             recordedUsage(UsageOf(clientUsage, ServerClient, now), now,
                                           inflight[r].level, actualCost))
    /\ recorded' = [recorded EXCEPT ![ServerClient] =
                       IF @.hour = CurrentHour(now)
                       THEN [@ EXCEPT !.count = @ + 1]
                       ELSE [hour |-> CurrentHour(now), count |-> 1]]
    /\ inflight' = [inflight EXCEPT ![r].stage = "recorded"]
    /\ UNCHANGED <<config, now, lastCheck, nRecords, nTicks>>
    /\ UNCHANGED <<fault, callOutcome, subject, passes, idResult>>
    /\ UNCHANGED handlerVars

(***************************************************************************)
(* sanitizeQuery and validateClientId called on their own                  *)
(***************************************************************************)
\* validateResearchRequest applied to a request value
ValidateRequest(req) ==
    /\ pc = "IDLE"
    /\ trace = <<>>
    /\ subject = NoSubject
    /\ request' = req
    /\ validation' = validateResearchRequest(req)
    /\ trace' = <<"VALIDATING">>
    /\ UNCHANGED <<pc, requestId, sanitizedQuery, apiCalls, researchCalls,
                   limiterCalls, serviceOutcome, envelope>>
    /\ UNCHANGED <<limiterVars, auxVars>>

ChooseSubject(s) ==
    /\ pc = "IDLE"
    /\ trace = <<>>
    /\ subject = NoSubject
    /\ subject' = s
    /\ UNCHANGED <<fault, callOutcome, inflight, passes, idResult>>
    /\ UNCHANGED <<handlerVars, limiterVars>>

\* sanitizeQuery applied to the subject, then to its own result
SanitizePass ==
    /\ subject.kind = "string"
    /\ Len(passes) < MaxPasses
    /\ passes' = Append(passes,
                        sanitizeQuery(IF passes = <<>> THEN subject.chars
                                      ELSE passes[Len(passes)]))
    /\ UNCHANGED <<fault, callOutcome, inflight, subject, idResult>>
    /\ UNCHANGED <<handlerVars, limiterVars>>

\* validateClientId applied to the subject
ValidateClientId ==
    /\ subject # NoSubject
    /\ idResult = Absent
    /\ idResult' = Given(validateClientId(subject))
    /\ UNCHANGED <<fault, callOutcome, inflight, subject, passes>>
    /\ UNCHANGED <<handlerVars, limiterVars>>

(***************************************************************************)
(* Specifications                                                          *)
(***************************************************************************)
InitHandler ==
    /\ pc = "IDLE"
    /\ request = NullRequest
    /\ requestId = ""
    /\ validation = NoValidation
    /\ sanitizedQuery = <<>>
    /\ apiCalls = <<>>
    /\ researchCalls = 0
    /\ limiterCalls = <<>>
    /\ serviceOutcome = NoOutcome
    /\ envelope = NoEnvelope
    /\ trace = <<>>

InitLimiterState ==
    /\ now = StartTime
    /\ clientUsage = EmptyMap
    /\ lastCheck = NoCheck
    /\ recorded = NoRecorded
    /\ nRecords = 0
    /\ nTicks = 0

InitAux ==
    /\ fault = NoFault
    /\ callOutcome = NoCallOutcome
    /\ inflight = [r \in Flights |-> IdleFlight]
    /\ subject = NoSubject
    /\ passes = <<>>
    /\ idResult = Absent

\* the server: one invocation of the do_deep_research tool
Init ==
    /\ InitHandler
    /\ InitLimiterState
    /\ InitAux
    /\ config = DefaultConfig

Next ==
    \/ \E req \in Requests, id \in RequestIds : Invoke(req, id)
    \/ Validate
    \/ Reject
    \/ Sanitize
    \/ CallService
    \/ \E o \in ServiceOutcomes : ServiceSettles(o)

Spec == Init /\ [][Next]_vars

\* the rate limiter used on its own
InitLimiter ==
    /\ InitHandler
    /\ InitLimiterState
    /\ InitAux
    /\ config \in Configs

NextLimiter ==
    \/ \E c \in CheckedClients, lvl \in Levels, est \in EstimatedCosts :
          CheckRateLimit(c, lvl, est)
    \/ \E c \in Clients, lvl \in Levels, cost \in ActualCosts : RecordRequest(c, lvl, cost)
    \/ CleanupOldEntries
    \/ \E d \in TickSteps : Tick(d)

SpecLimiter == InitLimiter /\ [][NextLimiter]_vars

\* the server next to a rate limiter that other callers record requests in
ServerRecordRequest(lvl, actualCost) ==
    /\ pc = "IDLE"
    /\ RecordRequest(ServerClient, lvl, actualCost)

NextServer ==
    \/ Next
    \/ \E lvl \in Levels, cost \in ActualCosts : ServerRecordRequest(lvl, cost)

SpecServer == Init /\ [][NextServer]_vars

\* the rate limiter when a part it relies on fails
NextFaults ==
    \/ \E kind \in FaultKinds : InjectFault(kind)
    \/ \E c \in Clients, lvl \in Levels, est \in EstimatedCosts : CheckUnderFault(c, lvl, est)
    \/ \E c \in Clients, lvl \in Levels, cost \in ActualCosts : RecordUnderFault(c, lvl, cost)

SpecFaults == Init /\ [][NextFaults]_vars

\* the rate limiter over a long run with sweeps
SweepTickSteps == {90, RetentionWindow, RetentionWindow + 1}

NextSweep ==
    \/ \E c \in Clients, lvl \in Levels, cost \in ActualCosts : RecordRequest(c, lvl, cost)
    \/ CleanupOldEntries
    \/ \E d \in SweepTickSteps : Tick(d)

SpecSweep == Init /\ [][NextSweep]_vars

\* two concurrent requests of the server's client next to earlier ones
NextFlights ==
    \/ \E lvl \in Levels, cost \in ActualCosts : ServerRecordRequest(lvl, cost)
    \/ \E r \in Flights, lvl \in Levels : FlightCheck(r, lvl)
    \/ \E r \in Flights, cost \in ActualCosts : FlightRecord(r, cost)

SpecFlights == Init /\ [][NextFlights]_vars

\* the validator on its own: validateResearchRequest on the requests, and
\* sanitizeQuery and validateClientId on the subjects
NextValidator ==
    \/ \E req \in Requests : ValidateRequest(req)
    \/ \E s \in Subjects : ChooseSubject(s)
    \/ SanitizePass
    \/ ValidateClientId

SpecValidator == Init /\ [][NextValidator]_vars

\* the rate limiter used serially: a request is recorded only right after it
\* has been allowed
NextSerial ==
    \/ \E c \in CheckedClients, lvl \in Levels, est \in EstimatedCosts :
          CheckRateLimit(c, lvl, est)
    \/ \E c \in CheckedClients, lvl \in Levels, cost \in ActualCosts :
          SerialRecordRequest(c, lvl, cost)
    \/ CleanupOldEntries
    \/ \E d \in TickSteps : Tick(d)

SpecSerial == InitLimiter /\ [][NextSerial]_vars

\* the research client answering valid requests with every response shape
NextResearch ==
    \/ \E req \in ResearchRequests, id \in RequestIds : Invoke(req, id)
    \/ Validate
    \/ Sanitize
    \/ CallService
    \/ \E r \in CompletedResponses : ServiceSettles(ServiceReturns(r))

SpecResearch == Init /\ [][NextResearch]_vars

(***************************************************************************)
(* Properties of the request handler                                       *)
(***************************************************************************)
Terminal == {"REJECTED", "SUCCEEDED", "FAILED"}

Elements(seq) == {seq[i] : i \in 1..Len(seq)}

IsPrefix(a, b) == Len(a) <= Len(b) /\ SubSeq(b, 1, Len(a)) = a

ValidationRan == "VALIDATING" \in Elements(trace)

\* C1: a request that fails validation gets the validation_error envelope, whose
\* text contains "validation failed", and its handling never proceeds past the
\* rejection: performDeepResearch is not invoked, no call reaches the external
\* service and the rate limiter is not invoked.
C1_RejectedBeforeAnyExternalCall ==
    (ValidationRan /\ ~validation.isValid) =>
        /\ pc \in {"INVALID", "REJECTED"}
        /\ researchCalls = 0
        /\ apiCalls = <<>>
        /\ limiterCalls = <<>>
        /\ pc = "REJECTED" =>
              /\ envelope.kind = "validation_error"
              /\ ~envelope.success
              /\ envelope.error # <<>>
              /\ envelope.error[1] = "Request validation failed: "
              /\ envelope.request_id = requestId

\* a 5-character query and an over-long query have been rejected
C1_Witness ==
    /\ pc = "REJECTED"
    /\ request.research_query.kind = "string"
    /\ Len(request.research_query.chars) = 5

\* C2: whatever the request value is, the handler never ends in an unhandled
\* fault; when it has returned, it has returned one envelope of kind success,
\* validation_error or internal_error carrying the requestId of the invocation.
C2_NeverAnUnhandledFault ==
    /\ pc # "FAULT"
    /\ pc \in Terminal =>
          /\ envelope.kind \in {"success", "validation_error", "internal_error"}
          /\ envelope.request_id = requestId
    /\ pc \notin Terminal => envelope = NoEnvelope

AllowedPaths ==
    {<<"RECEIVED", "VALIDATING", "VALID", "SANITIZING", "CALLING_SERVICE", "SUCCEEDED">>,
     <<"RECEIVED", "VALIDATING", "VALID", "SANITIZING", "CALLING_SERVICE", "FAILED">>,
     <<"RECEIVED", "VALIDATING", "INVALID", "REJECTED">>}

\* C3: the phases of an invocation are passed in the order of the state machine
\* (validation before sanitization before the external call), the external call
\* is made at most once and with the sanitized form of the validated query, and
\* a call that threw ends in the internal_error envelope, never in success.
C3_HandlerStateMachine ==
    /\ \E p \in AllowedPaths : IsPrefix(trace, p)
    /\ Len(apiCalls) <= 1
    /\ researchCalls = Len(apiCalls)
    /\ apiCalls # <<>> =>
          /\ validation.isValid
          /\ apiCalls[1].input = sanitizeQuery(request.research_query.chars)
          /\ apiCalls[1].web_search
    /\ (pc \in Terminal /\ apiCalls # <<>> /\ serviceOutcome.threw) =>
          /\ pc = "FAILED"
          /\ envelope.kind = "internal_error"
          /\ ~envelope.success

\* the service threw for a call whose input differs from the original query
C3_Witness ==
    /\ pc = "FAILED"
    /\ serviceOutcome.threw
    /\ apiCalls # <<>>
    /\ apiCalls[1].input # request.research_query.chars

\* C4: a response with status "incomplete" ends the invocation in a failure
\* envelope whose error text asks to try again; the call was issued once and
\* success is never reported for it.
C4_IncompleteIsRetryableFailure ==
    (pc \in Terminal /\ apiCalls # <<>> /\ ~serviceOutcome.threw
        /\ serviceOutcome.response.status = "incomplete") =>
        /\ pc = "FAILED"
        /\ ~envelope.success
        /\ "Please try again in a few moments." \in Elements(envelope.error)
        /\ Len(apiCalls) = 1
        /\ researchCalls = 1

C4_Witness ==
    /\ pc = "FAILED"
    /\ ~serviceOutcome.threw
    /\ serviceOutcome.response.status = "incomplete"

\* the client's requests recorded for the current hour have reached the hourly
\* limit of the accuracy level, or those of the day the daily limit
LimitReached(c, lvl) ==
    LET usage == UsageOf(clientUsage, c, now) IN
    \/ MapGetOr0(usage.requestCounts, HourKey(CurrentHour(now))) >= getHourlyLimit(config, lvl)
    \/ getDailyRequests(usage, CurrentDay(now), lvl) >= getDailyLimit(config, lvl)

\* C5: once the client's recorded requests have reached the limit, a further
\* do_deep_research invocation is not forwarded to the external service.
C5_DeniedOnceLimitReached ==
    [][(pc = "SANITIZING" /\ pc' = "CALLING_SERVICE")
          => ~LimitReached(ServerClient, validation.data.accuracy_level)]_vars

RecordCalls == Len(SelectSeq(limiterCalls, LAMBDA c : c = "recordRequest"))

\* C6: recordRequest has been called exactly once when a downstream call has
\* completed (the service answered, successfully or not), and not at all for a
\* request the validator rejected.
C6_RecordedOncePerCompletedCall ==
    /\ (pc \in {"SUCCEEDED", "FAILED"} /\ ~serviceOutcome.threw) => RecordCalls = 1
    /\ pc = "REJECTED" => RecordCalls = 0

(***************************************************************************)
(* Properties of the rate limiter                                          *)
(*                                                                         *)
(* lastCheck holds the checkRateLimit call that has just returned; the     *)
(* counts it looked at are read back through getUsageStats.                *)
(***************************************************************************)
CheckedStats == getUsageStats(clientUsage, lastCheck.clientId, now)

CheckedHourlyCount == CheckedStats.hourlyRequests

CheckedDailyCount ==
    IF lastCheck.accuracyLevel = "high"
    THEN CheckedStats.highAccuracyRequests
    ELSE CheckedStats.mediumAccuracyRequests

CheckedHourlyLimit == getHourlyLimit(config, lastCheck.accuracyLevel)

CheckedDailyLimit == getDailyLimit(config, lastCheck.accuracyLevel)

StartOfNextHour == (CurrentHour(now) + 1) * Hour

StartOfNextDay == (CurrentDay(now) + 1) * Day

\* the number of recordRequest calls made for the checked client in the
\* current hour bucket
RecordedThisHour ==
    IF recorded[lastCheck.clientId].hour = CurrentHour(now)
    THEN recorded[lastCheck.clientId].count ELSE 0

\* C7: after as many recordRequest calls for a client in one hour bucket as the
\* hourly limit, the next checkRateLimit for the client in that hour is denied
\* with reason hourly_limit and retryAfter at the start of the next hour.
C7_HourlyLimitDenies ==
    (lastCheck.called /\ RecordedThisHour = CheckedHourlyLimit) =>
        /\ ~lastCheck.result.allowed
        /\ lastCheck.result.reason = "hourly_limit"
        /\ lastCheck.result.retryAfter = StartOfNextHour

C7_Witness ==
    /\ lastCheck.called
    /\ RecordedThisHour = CheckedHourlyLimit
    /\ lastCheck.result.reason = "hourly_limit"

HourlyCheckFails == CheckedHourlyCount >= CheckedHourlyLimit

\* the projected daily cost of a supplied estimate exceeds the cap
CostCheckFails ==
    /\ lastCheck.estimatedCost # Absent
    /\ lastCheck.estimatedCost[1] # 0
    /\ CheckedStats.dailyCost + lastCheck.estimatedCost[1] > config.daily_cost_limit_usd

DailyCheckFails == CheckedDailyCount >= CheckedDailyLimit

EstimateOrZero == IF lastCheck.estimatedCost = Absent THEN 0 ELSE lastCheck.estimatedCost[1]

\* C9: whenever the hourly check passes and the accumulated cost of the day plus
\* the estimate (nothing, when omitted) exceeds the daily cap, checkRateLimit
\* denies with reason cost_limit and retryAfter at the start of the next day.
C9_CostCapDenies ==
    (lastCheck.called /\ ~HourlyCheckFails
        /\ CheckedStats.dailyCost + EstimateOrZero > config.daily_cost_limit_usd) =>
        /\ ~lastCheck.result.allowed
        /\ lastCheck.result.reason = "cost_limit"
        /\ lastCheck.result.retryAfter = StartOfNextDay

\* C10: an allowed request is given remaining = min(hourly limit - hourly count,
\* daily limit - daily count of the level) - 1, which is never negative.
C10_RemainingQuota ==
    (lastCheck.called /\ lastCheck.result.allowed) =>
        /\ lastCheck.result.remaining =
              MinOf(CheckedHourlyLimit - CheckedHourlyCount,
                    CheckedDailyLimit - CheckedDailyCount) - 1
        /\ lastCheck.result.remaining >= 0

\* an allowed request whose daily remainder is the smaller one
C10_Witness ==
    /\ lastCheck.called
    /\ lastCheck.result.allowed
    /\ CheckedHourlyCount > 0
    /\ CheckedDailyLimit - CheckedDailyCount < CheckedHourlyLimit - CheckedHourlyCount

(***************************************************************************)
(* Properties of the rate limiter under faults, sweeps and concurrency     *)
(***************************************************************************)
\* C11: the rate limiter is fail-open: a limiter call during which something
\* failed does not throw to its caller, and a checkRateLimit call that failed
\* inside returns allowed: true.
C11_FailOpen ==
    callOutcome.called =>
        /\ ~callOutcome.threw
        /\ (callOutcome.op = "checkRateLimit" /\ callOutcome.failed)
              => callOutcome.result.allowed

AllZeroStats ==
    [hourlyRequests |-> 0, dailyCost |-> 0,
     highAccuracyRequests |-> 0, mediumAccuracyRequests |-> 0]

\* the client was last active more than 48 hours before t
InactiveSince(usage, t) == usage.lastRequestTime < t - RetentionWindow

\* a bucket of an hour before the previous one, or of a day before the previous one
OldBucket(k, t) ==
    \/ k[1] = "hour" /\ k[2] < CurrentHour(t) - 1
    \/ k[1] = "day" /\ k[2] < CurrentDay(t) - 1
    \/ k[1] = "cost" /\ k[2] < CurrentDay(t) - 1

NoStaleState(usageMap, t) ==
    \A c \in DOMAIN usageMap :
        /\ ~InactiveSince(usageMap[c], t)
        /\ \A k \in DOMAIN usageMap[c].requestCounts : ~OldBucket(k, t)

\* C12: when cleanupOldEntries has run at time t, every client that was inactive
\* for more than 48 hours is absent and its usage statistics are all zero, and
\* no remaining client holds an hour bucket older than the previous hour or a
\* day or cost bucket older than the previous day.
C12_SweepLeavesNoStaleState ==
    [][CleanupOldEntries =>
          /\ NoStaleState(clientUsage', now')
          /\ \A c \in DOMAIN clientUsage :
                InactiveSince(clientUsage[c], now) =>
                    /\ ~MapHas(clientUsage', c)
                    /\ getUsageStats(clientUsage', c, now') = AllZeroStats]_vars

\* a client with recorded requests has been purged while another one, active
\* since, is kept
C12_Witness ==
    /\ NoStaleState(clientUsage, now)
    /\ \E c \in Clients : recorded[c].count > 0 /\ ~MapHas(clientUsage, c)
    /\ \E c \in Clients : MapHas(clientUsage, c) /\ clientUsage[c].lastRequestTime = now

\* both requests have called checkRateLimit for the same level with no
\* recordRequest of the client between the two calls
CheckedTogether(r1, r2) ==
    /\ r1 # r2
    /\ inflight[r1].stage # "idle"
    /\ inflight[r2].stage # "idle"
    /\ inflight[r1].level = inflight[r2].level
    /\ inflight[r1].recordsBefore = inflight[r2].recordsBefore

\* the check granted the last slot
GrantedLastSlot(r) ==
    /\ inflight[r].result.allowed
    /\ inflight[r].result.remaining = 0

\* the client's recorded count of the hour, or of the day for the level, is
\* above its limit
CountExceedsLimit(lvl) ==
    LET stats == getUsageStats(clientUsage, ServerClient, now) IN
    \/ stats.hourlyRequests > getHourlyLimit(config, lvl)
    \/ (IF lvl = "high" THEN stats.highAccuracyRequests
        ELSE stats.mediumAccuracyRequests) > getDailyLimit(config, lvl)

\* C13: checkRateLimit reserves nothing: two requests of one client that check
\* with no recordRequest in between get the same answer, so when one slot is
\* left both are allowed, and once both have recorded the recorded count
\* exceeds the limit.
C13_NoHardCapUnderConcurrency ==
    \A r1 \in Flights, r2 \in Flights :
        CheckedTogether(r1, r2) =>
            /\ inflight[r1].result = inflight[r2].result
            /\ (GrantedLastSlot(r1) /\ inflight[r1].stage = "recorded"
                  /\ inflight[r2].stage = "recorded")
                  => CountExceedsLimit(inflight[r1].level)

\* both requests were granted the last slot and have recorded
C13_Witness ==
    \E r1 \in Flights, r2 \in Flights :
        /\ CheckedTogether(r1, r2)
        /\ GrantedLastSlot(r1)
        /\ GrantedLastSlot(r2)
        /\ inflight[r1].stage = "recorded"
        /\ inflight[r2].stage = "recorded"
        /\ CountExceedsLimit(inflight[r1].level)

(***************************************************************************)
(* Properties of the validator                                             *)
(***************************************************************************)
SchemaCodes == {"invalid_type", "too_small", "too_big", "invalid_string", "custom",
                "invalid_enum_value"}
BusinessCodes == {"business_rule"}
SafetyCodes == {"security", "format", "spam"}

CodesOf(errs) == {errs[i].code : i \in 1..Len(errs)}
FieldsOf(errs) == {errs[i].field : i \in 1..Len(errs)}

\* the categories the validated request fails, each taken on its own
SchemaFails == DoDeepResearchSchema(request) # <<>>
BusinessFails == validateBusinessRules(ParsedData(request)) # <<>>
SafetyFails == validateContentSafety(request.research_query.chars) # <<>>

\* C14: validateResearchRequest checks schema, business rules, content safety in
\* this order and returns the errors of the first failing category alone; it
\* returns isValid true only when all three pass.
C14_FirstFailingCategoryOnly ==
    ValidationRan =>
        /\ SchemaFails =>
              /\ ~validation.isValid
              /\ validation.errors = DoDeepResearchSchema(request)
              /\ CodesOf(validation.errors) \subseteq SchemaCodes
        /\ (~SchemaFails /\ BusinessFails) =>
              /\ ~validation.isValid
              /\ CodesOf(validation.errors) \subseteq BusinessCodes
        /\ (~SchemaFails /\ ~BusinessFails /\ SafetyFails) =>
              /\ ~validation.isValid
              /\ CodesOf(validation.errors) \subseteq SafetyCodes
        /\ validation.isValid <=> ~(SchemaFails \/ BusinessFails \/ SafetyFails)

\* a request that breaks a business rule and a safety rule got business-rule
\* errors only
C14_Witness ==
    /\ ValidationRan
    /\ ~SchemaFails
    /\ BusinessFails
    /\ SafetyFails
    /\ CodesOf(validation.errors) = BusinessCodes

\* exactly one of data and errors is there, as isValid says
OneBranchPopulated(r) ==
    /\ r.isValid => (r.hasData /\ r.errors = <<>>)
    /\ ~r.isValid => (~r.hasData /\ r.errors # <<>>)

\* C15: a ValidationResult returned by validateResearchRequest or by
\* validateClientId carries data and no errors when isValid is true, and a
\* non-empty list of errors and no data when isValid is false.
C15_ExactlyOneBranch ==
    /\ ValidationRan => OneBranchPopulated(validation)
    /\ idResult # Absent => OneBranchPopulated(idResult[1])

\* validateClientId has rejected a client id for its characters
C15_Witness ==
    /\ idResult # Absent
    /\ ~idResult[1].isValid
    /\ CodesOf(idResult[1].errors) = {"format"}

QueryLengthOutOfRange ==
    /\ request.isObject
    /\ request.research_query.kind = "string"
    /\ \/ Len(request.research_query.chars) < 10
       \/ Len(request.research_query.chars) > 2000

\* C16: a request whose research_query is shorter than 10 or longer than 2000
\* characters is invalid and has an error on the field research_query, whatever
\* its other fields hold.
C16_QueryLengthRejected ==
    (ValidationRan /\ QueryLengthOutOfRange) =>
        /\ ~validation.isValid
        /\ "research_query" \in FieldsOf(validation.errors)

\* an over-long query in a request whose accuracy level is invalid as well
C16_Witness ==
    /\ ValidationRan
    /\ QueryLengthOutOfRange
    /\ Len(request.research_query.chars) > 2000
    /\ "accuracy_level" \in FieldsOf(validation.errors)
    /\ "research_query" \in FieldsOf(validation.errors)

\* the fields other than research_query pass the schema and the business
\* rules, and the query has between 10 and 2000 characters
OtherwiseAcceptable ==
    /\ request.isObject
    /\ request.research_query.kind = "string"
    /\ Len(request.research_query.chars) >= 10
    /\ Len(request.research_query.chars) <= 2000
    /\ AccuracyLevelSchema(request.accuracy_level) = <<>>
    /\ MaxTokensSchema(request.max_tokens) = <<>>
    /\ TemperatureSchema(request.temperature) = <<>>
    /\ ResponseFormatSchema(request.response_format) = <<>>
    /\ validateBusinessRules(ParsedData(request)) = <<>>

\* C17: a request whose query contains an injection pattern (script tag,
\* javascript:, eval(, inline event handler, data:text/html, function literal)
\* is invalid and one of its errors has the code security; stated here for the
\* requests that have nothing else wrong.
C17_InjectionRejectedAsSecurity ==
    (ValidationRan /\ OtherwiseAcceptable
        /\ MatchesDangerousPattern(request.research_query.chars)) =>
        /\ ~validation.isValid
        /\ "security" \in CodesOf(validation.errors)

TokensRuleBroken ==
    /\ request.accuracy_level = "high"
    /\ request.max_tokens # Absent
    /\ request.max_tokens[1] < 2000

TemperatureRuleBroken ==
    /\ request.accuracy_level = "high"
    /\ request.temperature # Absent
    /\ request.temperature[1] > 50

BusinessRuleErrorOn(f) ==
    \E i \in 1..Len(validation.errors) :
        validation.errors[i].field = f /\ validation.errors[i].code = "business_rule"

\* C18: a request that passes the schema fails the business rules exactly when
\* it asks for high accuracy with max_tokens given below 2000 (error on
\* max_tokens) or with temperature given above 0.5 (error on temperature); a
\* medium-accuracy request never fails them, however complex its query.
C18_BusinessRules ==
    (ValidationRan /\ ~SchemaFails) =>
        /\ BusinessRuleErrorOn("max_tokens") <=> TokensRuleBroken
        /\ BusinessRuleErrorOn("temperature") <=> TemperatureRuleBroken
        /\ ("business_rule" \in CodesOf(validation.errors))
              <=> (TokensRuleBroken \/ TemperatureRuleBroken)
        /\ request.accuracy_level = "medium" =>
              "business_rule" \notin CodesOf(validation.errors)

\* a query of high complexity asked with medium accuracy and max_tokens 1000 is
\* valid; the warning is logged
C18_Witness ==
    /\ ValidationRan
    /\ validation.isValid
    /\ request.max_tokens = Given(1000)
    /\ BusinessRuleWarnings(validation.data) # <<>>

\* C19: sanitizeQuery is idempotent: applied to its own result it returns that
\* result.
C19_SanitizeIdempotent ==
    Len(passes) >= 2 => passes[2] = passes[1]

\* a '<' that is followed later by a '>'
HasTagSequence(s) ==
    \E i \in 1..Len(s) : \E j \in (i + 1)..Len(s) : s[i] = "<" /\ s[j] = ">"

\* C20: the result of sanitizeQuery contains no '<' followed later by a '>' and
\* is at most 2000 characters long.
C20_SanitizedHasNoTags ==
    \A i \in 1..Len(passes) :
        /\ ~HasTagSequence(passes[i])
        /\ Len(passes[i]) <= 2000

\* tags were removed from the subject and an unclosed '<' is left
C20_Witness ==
    /\ passes # <<>>
    /\ HasTagSequence(subject.chars)
    /\ \E i \in 1..Len(passes[1]) : passes[1][i] = "<"

(***************************************************************************)
(* Properties of the response text                                         *)
(***************************************************************************)
ScriptTag == <<"<","s","c","r","i","p","t",">">>

\* the strings JSON.stringify writes into content[0].text that are not fixed
\* by the code: the error message and the research results
ResponseText(env) == env.error \o env.result.research_results

QueryHasScriptTag ==
    /\ request.research_query.kind = "string"
    /\ Includes(request.research_query.chars, ScriptTag)

\* C21: when the query of the request contains a <script> tag, the text of
\* the response the handler returns does not contain '<script>'.
C21_NoScriptTagInResponse ==
    (envelope.kind # "none" /\ QueryHasScriptTag)
        => ~Includes(ResponseText(envelope), ScriptTag)

\* a query with a script tag has been answered
C21_Witness ==
    /\ pc = "REJECTED"
    /\ QueryHasScriptTag
    /\ envelope.kind = "validation_error"
    /\ envelope.error # <<>>

(***************************************************************************)
(* Properties of the research client                                       *)
(***************************************************************************)
\* performDeepResearch has returned a response to the handler
Returned == pc = "SUCCEEDED"

ReturnedResponse == serviceOutcome.response

ResearchResults == envelope.result.research_results

NonBlank(text) == Len(Trim(text)) > 0

\* what each source holds: (a) output_text, (b) the text of the message item's
\* output_text/text part, (c) text, then content
SourceA(r) == IF r.output_text = Absent THEN <<>> ELSE Trim(r.output_text[1])
SourceB(r) == ScanOutput(r.output)
SourceC(r) == ExtractFallback(r)

\* C22: the sources are tried in the order (a), (b), (c) until one gives
\* non-empty text: an earlier source with text wins, and a later source is
\* used whenever every earlier one gives none.
C22_ExtractionOrder ==
    Returned =>
        LET a == SourceA(ReturnedResponse)
            b == SourceB(ReturnedResponse)
            c == SourceC(ReturnedResponse)
        IN /\ NonBlank(a) => ResearchResults = a
           /\ (~NonBlank(a) /\ NonBlank(b)) => ResearchResults = b
           /\ (~NonBlank(a) /\ ~NonBlank(b) /\ NonBlank(c)) => ResearchResults = c

NoSourceYieldsText(r) ==
    ~NonBlank(SourceA(r)) /\ ~NonBlank(SourceB(r)) /\ ~NonBlank(SourceC(r))

TotalTokensOf(r) == IF r.usage = Absent THEN 0 ELSE r.usage[1].total_tokens
OutputTokensOf(r) == IF r.usage = Absent THEN 0 ELSE r.usage[1].output_tokens

\* C23 as stated: research_results is never empty or whitespace-only; when no
\* source yields text it is the parsing-error placeholder if the token usage
\* is nonzero and the no-content placeholder if the usage is zero.
C23_PlaceholderByTokenUsage ==
    Returned =>
        /\ NonBlank(ResearchResults)
        /\ (NoSourceYieldsText(ReturnedResponse) /\ TotalTokensOf(ReturnedResponse) > 0)
              => ResearchResults = ParsingErrorPlaceholder
        /\ (NoSourceYieldsText(ReturnedResponse) /\ TotalTokensOf(ReturnedResponse) = 0)
              => ResearchResults = NoContentPlaceholder

\* C23 amended: research_results is never empty or whitespace-only; when no
\* source yields text it is the parsing-error placeholder if the count of
\* output tokens is nonzero and the no-content placeholder if that count is
\* zero or the usage is missing.
C23_PlaceholderByOutputTokens ==
    Returned =>
        /\ NonBlank(ResearchResults)
        /\ (NoSourceYieldsText(ReturnedResponse) /\ OutputTokensOf(ReturnedResponse) > 0)
              => ResearchResults = ParsingErrorPlaceholder
        /\ (NoSourceYieldsText(ReturnedResponse) /\ OutputTokensOf(ReturnedResponse) = 0)
              => ResearchResults = NoContentPlaceholder

\* a response without text, with input tokens only, has been answered
C23_Witness ==
    /\ Returned
    /\ NoSourceYieldsText(ReturnedResponse)
    /\ TotalTokensOf(ReturnedResponse) > 0
    /\ OutputTokensOf(ReturnedResponse) = 0
    /\ ResearchResults = NoContentPlaceholder

\* (total_tokens / 1000) * rate rounded to 4 decimal places, in units of 0.0001 USD
RoundedCost(totalTokens, rate) == RoundDiv(totalTokens * rate, TokensPerCostUnit)

FirstViolatedRule(id) ==
    IF id.kind # "string" \/ id.chars = <<>> THEN "required"
    ELSE IF Len(id.chars) < MinClientIdLength \/ Len(id.chars) > MaxClientIdLength
         THEN "length"
    ELSE IF \E i \in 1..Len(id.chars) : id.chars[i] \notin ClientIdChars THEN "format"
    ELSE "none"

\* C25: validateClientId returns exactly one error, that of the first rule
\* broken in the order required, length, format, and returns valid with the
\* unchanged id exactly when all three rules hold.
C25_FirstViolatedRuleWins ==
    idResult # Absent =>
        LET r == idResult[1] IN
        /\ r.isValid <=> (FirstViolatedRule(subject) = "none")
        /\ r.isValid => (r.hasData /\ r.data = subject /\ r.errors = <<>>)
        /\ ~r.isValid =>
              /\ Len(r.errors) = 1
              /\ r.errors[1].field = "clientId"
              /\ r.errors[1].code = FirstViolatedRule(subject)

\* an id that breaks both the length and the format rule got the length error
C25_Witness ==
    /\ idResult # Absent
    /\ subject.kind = "string"
    /\ Len(subject.chars) \in 1..(MinClientIdLength - 1)
    /\ \E i \in 1..Len(subject.chars) : subject.chars[i] \notin ClientIdChars
    /\ CodesOf(idResult[1].errors) = {"length"}

(***************************************************************************)
(* Properties of the rate limiter under serial use                         *)
(***************************************************************************)
LargerHourlyLimit ==
    IF getHourlyLimit(config, "high") >= getHourlyLimit(config, "medium")
    THEN getHourlyLimit(config, "high") ELSE getHourlyLimit(config, "medium")

HourlyCountOf(c) ==
    MapGetOr0(UsageOf(clientUsage, c, now).requestCounts, HourKey(CurrentHour(now)))

DailyCountOf(c, lvl) ==
    MapGetOr0(UsageOf(clientUsage, c, now).requestCounts, DayKey(CurrentDay(now), lvl))

HourlyRequestsSeen(usageMap, c, t) ==
    MapGetOr0(UsageOf(usageMap, c, t).requestCounts, HourKey(CurrentHour(t)))

DailyRequestsSeen(usageMap, c, t, lvl) ==
    getDailyRequests(UsageOf(usageMap, c, t), CurrentDay(t), lvl)

HighCheckAt(usageMap, c, t) ==
    checkRateLimitResult(config, UsageOf(usageMap, c, t), t, "high", Absent)

\* C27: a request recorded at medium accuracy adds one to the hourly count a
\* high-accuracy check compares with its limit, and nothing to the daily
\* count that check compares; once the shared hourly count has reached the
\* high hourly limit the high-accuracy check is denied with hourly_limit.
C27_HourlySharedDailyPerLevel ==
    [][\A c \in Clients, cost \in ActualCosts :
          RecordRequest(c, "medium", cost) =>
              /\ HourlyRequestsSeen(clientUsage', c, now')
                    = HourlyRequestsSeen(clientUsage, c, now) + 1
              /\ DailyRequestsSeen(clientUsage', c, now', "high")
                    = DailyRequestsSeen(clientUsage, c, now, "high")
              /\ (HourlyRequestsSeen(clientUsage', c, now') >= getHourlyLimit(config, "high"))
                    => (/\ ~HighCheckAt(clientUsage', c, now').allowed
                        /\ HighCheckAt(clientUsage', c, now').reason = "hourly_limit")
              /\ (HighCheckAt(clientUsage, c, now).reason # "daily_limit")
                    => (HighCheckAt(clientUsage', c, now').reason # "daily_limit")]_vars

\* a high-accuracy check is denied with hourly_limit although no
\* high-accuracy request has been recorded today
C27_Witness ==
    /\ lastCheck.called
    /\ lastCheck.accuracyLevel = "high"
    /\ lastCheck.result.reason = "hourly_limit"
    /\ DailyRequestsSeen(clientUsage, lastCheck.clientId, now, "high") = 0
    /\ DailyRequestsSeen(clientUsage, lastCheck.clientId, now, "medium")
          >= getHourlyLimit(config, "high")

\* allowed, reason and remaining of the check of client c at time t
AdmissionAt(usageMap, c, t, lvl, est) ==
    LET r == checkRateLimitResult(config, UsageOf(usageMap, c, t), t, lvl, est)
    IN <<r.allowed, r.reason, r.remaining>>

ActiveWithinRetention(usage, t) == usage.lastRequestTime >= t - RetentionWindow

\* the buckets of the current and the previous hour and day
RecentBucket(k, t) ==
    \/ k[1] = "hour" /\ k[2] >= CurrentHour(t) - 1
    \/ k[1] \in {"day", "cost"} /\ k[2] >= CurrentDay(t) - 1

\* C28: cleanupOldEntries at time t changes neither what checkRateLimit
\* answers at t (allowed, reason, remaining) nor what getUsageStats returns
\* at t, and removes no bucket of the current or previous hour or day of a
\* client active within the last 48 hours.
C28_SweepIsTransparent ==
    [][CleanupOldEntries =>
          /\ \A c \in Clients, lvl \in Levels, est \in EstimatedCosts :
                AdmissionAt(clientUsage', c, now, lvl, est)
                    = AdmissionAt(clientUsage, c, now, lvl, est)
          /\ \A c \in Clients :
                getUsageStats(clientUsage', c, now) = getUsageStats(clientUsage, c, now)
          /\ \A c \in DOMAIN clientUsage :
                ActiveWithinRetention(clientUsage[c], now) =>
                    /\ c \in DOMAIN clientUsage'
                    /\ \A k \in DOMAIN clientUsage[c].requestCounts :
                          RecentBucket(k, now) =>
                              /\ k \in DOMAIN clientUsage'[c].requestCounts
                              /\ clientUsage'[c].requestCounts[k]
                                    = clientUsage[c].requestCounts[k]]_vars

\* the sweep has removed a stale hour bucket of a client (the client's total
\* cost is that of more requests than its hour buckets count) and has kept its
\* bucket of the previous hour
C28_Witness ==
    \E c \in DOMAIN clientUsage :
        LET counts == clientUsage[c].requestCounts
            previous == HourKey(CurrentHour(now) - 1)
        IN /\ previous \in DOMAIN counts
           /\ \A k \in DOMAIN counts : k[1] = "hour" => k = previous
           /\ \A cost \in ActualCosts :
                 clientUsage[c].totalCost > cost * counts[previous]

\* the last call was a checkRateLimit denied with hourly_limit
DeniedForTheHour ==
    /\ lastCheck.called
    /\ ~lastCheck.result.allowed
    /\ lastCheck.result.reason = "hourly_limit"

\* C29: after a denial with reason hourly_limit and retryAfter r, a
\* checkRateLimit for the same client and level at time r, with no
\* recordRequest for the client in between and no estimatedCost, is allowed.
C29_RetryAfterHonoured ==
    [][(/\ DeniedForTheHour
        /\ now' = lastCheck.result.retryAfter
        /\ clientUsage' = clientUsage)
          => checkRateLimitResult(config,
                                  UsageOf(clientUsage', lastCheck.clientId, now'),
                                  now', lastCheck.accuracyLevel, Absent).allowed]_vars

\* C30: the query the handler sends to the research client for a validated
\* request has at least 10 and at most 2000 characters and is the validated
\* query with its ends trimmed and its whitespace collapsed.
C30_SentQueryKeepsConstraint ==
    apiCalls # <<>> =>
        LET sent == apiCalls[1].input
            validated == validation.data.research_query.chars
        IN /\ Len(sent) >= MinQueryLength
           /\ Len(sent) <= MaxQueryLength
           /\ sent = CollapseWhitespace(Trim(validated))

====
